---- MODULE Spec2Model ----
(***************************************************************************)
(* Save-trigger guard, policy filter chain, message composer, change       *)
(* analyzer and commit/push executor of the git-autopush extension         *)
(* (modular edition).                                                      *)
(*   handleSave            src/unnamed/part_002            (lines 975-1212) *)
(*   saveAndRunCmd, runOnce, undoLastCommit                                *)
(*                         src/extension/dist/modules/commands.js          *)
(*   git operations        src/unnamed/part_006                            *)
(*   AI service            src/unnamed/part_005                            *)
(*   message picker        src/extension/dist/modules/stats.js (137-276)   *)
(*   change analyzer       src/extension/dist/modules/change-analyzer.js   *)
(***************************************************************************)
EXTENDS Naturals, Integers, Sequences, FiniteSets, TLC

\* ------------------------------------------------------------------ bounds
MaxTicks == 2       \* clock ticks modelled
MaxRuns == 1        \* save-and-run invocations suspended on their await
MaxHandlers == 1    \* save handlers suspended on a prompt or on generation
MaxSent == 1        \* commands sent to the terminal
MaxCommits == 1     \* commits the repository may receive
MaxUndos == 1       \* undo invocations suspended on their confirmation
MaxMsgLen == 4      \* characters of a message to escape
MaxDiffLines == 152 \* added and removed lines of a diff
MaxFiles == 3       \* file sections of a diff
MaxChanged == 4     \* lines of a diff taken from the pool of lines
MaxDecisions == 2   \* decisions of the policy chain kept for comparison

\* ------------------------------------------------------- program constants
TokenTtl == 5000                \* Date.now() + 5000
TickMs == TokenTtl              \* granularity of the modelled clock

\* ---------------------------------------------------------------- universe
\* Paths of the workspace, relative to the workspace folder.  The absolute
\* path (doc.uri.fsPath) and the relative one (path.relative) are in
\* bijection, so one name stands for both.
Paths == {"a.txt", "credentials.json", "tmp.txt"}
\* files git tracks and that may carry uncommitted changes
Tracked == {"a.txt", "credentials.json"}
\* files matched by the repository's ignore rules (git check-ignore exits 0)
GitIgnored == {"tmp.txt"}
Branches == {"main", "feat"}

\* Math.random().toString(36).slice(2): "" when Math.random() returns 0
NonceValues == {"", "k7", "q2"}
\* Map.get of a missing key
Absent == "absent"

\* workspaceState value null (and every value the first check treats as null)
NoToken == [path |-> "", nonce |-> "", expires |-> 0]

\* ------------------------------------------------------------ configuration
DefaultWatchGlobs == <<"**/*.{py,js,ts,md,json,txt}">>
DefaultSensitiveGlobs == <<".env", "*.key", "credentials.json", "*.pem">>
DefaultProtectedBranches == <<"main", "master", "production">>

\* the settings read at each save; the sensitive globs and the protected
\* branches keep their defaults
Cfgs == [watchGlobs : {DefaultWatchGlobs, <<"*.md">>}, autoCommit : BOOLEAN,
         autoPush : BOOLEAN, dryRun : BOOLEAN, ai : BOOLEAN, hasKey : BOOLEAN,
         useEmoji : BOOLEAN]

\* minimatch(rel, pattern) on the paths and patterns of the model
minimatch(rel, g) ==
    CASE g = "**/*.{py,js,ts,md,json,txt}" -> rel \in {"a.txt", "credentials.json", "tmp.txt"}
      [] g = "*.md" -> FALSE
      [] g = ".env" -> FALSE
      [] g = "credentials.json" -> rel = "credentials.json"
      [] OTHER -> FALSE

Range(s) == {s[i] : i \in 1..Len(s)}

MatchesAny(rel, globs) == \E i \in 1..Len(globs) : minimatch(rel, globs[i])

\* --------------------------------------------------------------------- text
\* A string is the sequence of its characters; a character is a one-symbol
\* string, or a name in braces for a character outside ASCII.
DQ == "\""
BS == "\\"
NL == "\n"
Backtick == "{backtick}"
Sparkles == "{sparkles}"        \* U+2728, a dingbat
BugEmoji == "{bug}"             \* U+1F41B
Zap == "{zap}"                  \* U+26A1, a miscellaneous symbol

\* whitespace of String.prototype.trim and of \s
White == {" ", NL}

Rep(c, n) == [i \in 1..n |-> c]

\* the length of the longest run of characters of C in s from position i on
RunFrom(s, C, i) ==
    LET stops == {j \in i..Len(s) : s[j] \notin C}
    IN  IF stops = {} THEN Len(s) + 1 - i
        ELSE (CHOOSE j \in stops : \A k \in stops : j <= k) - i

\* the length of the longest run of characters of C that ends s at position i
RunBack(s, C, i) ==
    LET stops == {j \in 1..i : s[j] \notin C}
    IN  IF stops = {} THEN i
        ELSE i - (CHOOSE j \in stops : \A k \in stops : j >= k)

\* str.replace(/^[C]+/, '')
DropLead(s, C) == SubSeq(s, RunFrom(s, C, 1) + 1, Len(s))

\* str.replace(/[C]+$/, '')
DropTrail(s, C) == SubSeq(s, 1, Len(s) - RunBack(s, C, Len(s)))

\* str.replace(/^[C]+|[C]+$/g, '')
DropBoth(s, C) == DropTrail(DropLead(s, C), C)

\* String.prototype.trim
Trim(s) == DropBoth(s, White)

\* str.replace(/^[C]+ */gu, ''): a leading run of C and the blanks after it
DropLeadAndBlanks(s, C) ==
    IF RunFrom(s, C, 1) = 0 THEN s ELSE DropLead(DropLead(s, C), {" "})

\* str.split('\n'): the lines lie between the line breaks
Split(s) ==
    LET breaks == {i \in 1..Len(s) : s[i] = NL}
        \* the position of the k-th line break; 0 and Len(s) + 1 bound the text
        At(k) == IF k = 0 THEN 0
                 ELSE IF k > Cardinality(breaks) THEN Len(s) + 1
                 ELSE CHOOSE i \in breaks :
                          Cardinality({j \in breaks : j < i}) = k - 1
    IN  [k \in 1..(Cardinality(breaks) + 1) |->
             SubSeq(s, At(k - 1) + 1, At(k) - 1)]

\* lines.join(sep)
RECURSIVE Join(_, _)
Join(lines, sep) ==
    IF lines = <<>> THEN <<>>
    ELSE IF Len(lines) = 1 THEN lines[1]
    ELSE lines[1] \o sep \o Join(Tail(lines), sep)


\* String.prototype.toLowerCase on the characters of the model
Lower(s) == [i \in 1..Len(s) |-> IF s[i] = "U" THEN "u" ELSE s[i]]

\* String.prototype.includes
Includes(s, sub) ==
    \E k \in 0..(Len(s) - Len(sub)) : SubSeq(s, k + 1, k + Len(sub)) = sub

\* ------------------------------------------------------------ message picker
\* the generic pool loadMessages falls back to, and the last-resort message
Templates ==
    { <<Sparkles, " ", "U", "p", "d", "a", "t", "e", " ", "c", "o", "d", "e">>,
      <<BugEmoji, " ", "M", "i", "n", "o", "r", " ", "c", "h", "a", "n", "g", "e", "s">>,
      <<"U", "p", "d", "a", "t", "e", " ", "c", "o", "d", "e">> }

\* path.basename of the documents of the model
FileName(p) ==
    CASE p = "a.txt" -> <<"a", ".", "t", "x", "t">>
      [] p = "tmp.txt" -> <<"t", "m", "p", ".", "t", "x", "t">>
      [] OTHER -> <<"c", "r", "e", "d", "e", "n", "t", "i", "a", "l", "s",
                    ".", "j", "s", "o", "n">>

\* stripEmoji: the four replacements, then trim
stripEmoji(str) ==
    LET \* characters that are neither letters nor numbers: [^\p{L}\p{N}]
        NonWord == {" ", NL, DQ, BS, "$", "*", "#", ":", ".", "-", "'", Backtick,
                    Sparkles, BugEmoji, Zap}
    IN
    LET DingbatRange == {Sparkles}
    IN
    LET MiscSymbolRange == {Zap}
    IN
    LET \* [\u{1F300}-\u{1F9FF}], [\u{2600}-\u{26FF}], [\u{2700}-\u{27BF}]
        EmojiRange == {BugEmoji}
    IN
    IF str = <<>> THEN str
    ELSE Trim(DropLeadAndBlanks(
                DropLeadAndBlanks(
                  DropLeadAndBlanks(
                    DropLeadAndBlanks(str, EmojiRange),
                    MiscSymbolRange),
                  DingbatRange),
                NonWord))

\* what require("./modules/message-picker") gives for the name stripEmoji:
\* the module exports getSmartMessage, getSmartMessageWithFile, loadMessages
StripEmojiExported == FALSE

\* getSmartMessage, with msg the template pickRandom returned
getSmartMessage(msg, useEmoji) == IF useEmoji THEN msg ELSE stripEmoji(msg)

\* getSmartMessageWithFile
getSmartMessageWithFile(msg, fileName, useEmoji) ==
    LET baseMsg == getSmartMessage(msg, useEmoji)
    IN  IF Includes(Lower(baseMsg), Lower(fileName)) THEN baseMsg
        ELSE baseMsg \o <<":", " ">> \o fileName

\* ---------------------------------------------------------------- AI service
SubjectLimit == 72
SubjectKeep == 69

\* the ways a call can end: an exception, or a returned message
Threw == [threw |-> TRUE, msg |-> <<>>]
Returned(m) == [threw |-> FALSE, msg |-> m]


\* parseResponse, the clean-up of one line
CleanLine(line) ==
    LET \* line.replace(/^#+\s*/, '')
        DropHeading(s) ==
            IF RunFrom(s, {"#"}, 1) = 0 THEN s ELSE DropLead(DropLead(s, {"#"}), White)
    IN
    Trim(DropHeading(DropBoth(DropBoth(line, {DQ, "'", Backtick}), {"*"})))

\* subject.length > 72 ? subject.slice(0, 69) + '...' : subject
Truncate(subject) ==
    IF Len(subject) > SubjectLimit
    THEN SubSeq(subject, 1, SubjectKeep) \o <<".", ".", ".">>
    ELSE subject


\* lines.find(l => l.length > 0) || '', from position i on
RECURSIVE FindNonEmpty(_, _)
FindNonEmpty(lines, i) ==
    IF i > Len(lines) THEN <<>>
    ELSE IF lines[i] # <<>> THEN lines[i]
    ELSE FindNonEmpty(lines, i + 1)

\* lines.slice(from, to), positions counted from 0
Slice(lines, from, to) ==
    SubSeq(lines, from + 1, IF to < Len(lines) THEN to ELSE Len(lines))

\* parseResponse(rawData, style); rawData is the response body:
\* kind "malformed" (not JSON), "null", "error" (an error field), "empty"
\* (no body, or no choices) or "content" (choices[0].message.content)
parseResponse(rawData, style) ==
    LET \* Array.prototype.indexOf, counted from 0; -1 when absent
        IndexOf(lines, l) ==
            IF \E i \in 1..Len(lines) : lines[i] = l
            THEN (CHOOSE i \in 1..Len(lines) :
                      lines[i] = l /\ \A j \in 1..(i - 1) : lines[j] # l) - 1
            ELSE -1
    IN
    LET \* while (lines.length && !lines[0]) lines.shift(); the same with pop()
        DropEmptyEnds(lines) == DropBoth(lines, {<<>>})
    IN
    IF rawData.kind \in {"malformed", "null", "error"} THEN Threw
    ELSE LET raw == IF rawData.kind = "content" THEN Trim(rawData.content)
                    ELSE <<>>
         IN  IF raw = <<>> THEN Threw
             ELSE LET split == Split(raw)
                      lines == [i \in 1..Len(split) |-> CleanLine(split[i])]
                      first == FindNonEmpty(lines, 1)
                      kept == DropEmptyEnds(lines)
                      subject == Truncate(IF kept = <<>> THEN <<>> ELSE kept[1])
                      bodyLines ==
                          IF style = "medium"
                          THEN SelectSeq(Slice(kept, 1, 5), LAMBDA l : l # <<>>)
                          ELSE SelectSeq(Slice(kept, 1, 10),
                                   LAMBDA l : l # <<>> \/ IndexOf(kept, l) = 1)
                      body == Join(bodyLines, <<NL>>)
                  IN  IF style = "short" THEN Returned(Truncate(first))
                      ELSE IF body # <<>>
                      THEN Returned(subject \o <<NL, NL>> \o body)
                      ELSE Returned(subject)

\* makeAPIRequest rejects on a socket error, on the timeout and on a status
\* outside 200..299
makeAPIRequest(resp) ==
    IF resp.net # "ok" \/ resp.status < 200 \/ resp.status >= 300
    THEN [rejected |-> TRUE, data |-> [kind |-> "empty", content |-> <<>>]]
    ELSE [rejected |-> FALSE, data |-> resp.body]

\* generateCommitMessage: resp is what the backend does with the request,
\* resp.style the length tier the analysis of the diff suggests
generateCommitMessage(resp) ==
    LET rawResponse == makeAPIRequest(resp)
    IN  IF rawResponse.rejected THEN Threw
        ELSE parseResponse(rawResponse.data, resp.style)

\* MessageAfterGen that takes whatever generation left, a message or not
MessageAfterGenNoFallback(message, r, useEmoji) ==
    [message |-> r.msg, log |-> IF r.threw THEN "AI failed" ELSE "using"]

\* handleSave, the callback of withProgress once generation has settled:
\* message is the fallback chosen before, r the outcome of generation
MessageAfterGen(message, r, useEmoji) ==
    IF r.threw THEN [message |-> message, log |-> "AI failed"]
    ELSE IF r.msg # <<>> /\ ~useEmoji /\ ~StripEmojiExported
    THEN \* stripEmoji is undefined here: the call throws a TypeError
         [message |-> message, log |-> "AI failed"]
    ELSE LET generated == IF r.msg # <<>> /\ ~useEmoji THEN stripEmoji(r.msg)
                          ELSE r.msg
         IN  [message |-> IF generated # <<>> THEN generated ELSE message,
              log |-> "using"]

VARIABLES
    token,          \* workspaceState 'gitAutopush.triggeredBySaveKeyFor'
    triggerNonces,  \* state.triggerNonces : path -> nonce
    now,            \* Date.now()
    runs,           \* save-and-run invocations awaiting workspaceState.update
    handlers,       \* save handlers suspended on an await
    termQ,          \* commands sent to the terminal, not yet run by the shell
    branch,         \* the branch checked out
    dirty,          \* tracked files with uncommitted changes
    staged,         \* the index
    commits,        \* the commits of the repository, oldest first
    head,           \* HEAD: the position of its commit in commits
    lastCommitInfo, \* state.lastCommitInfo
    totalCommits,   \* stats.totalCommits
    isRepo,         \* the workspace folder is inside a git repository
    undos,          \* undo invocations suspended on their confirmation
    call,           \* the last call of a function checked on its own
    forged,         \* the persisted token was written from outside the process
    armed,          \* the last completed save-and-run, not yet followed by a save of its path
    spent,          \* path of the last authorized save since the last save-and-run
    ev              \* the event handled by the last step and what it did

vars == <<token, triggerNonces, now, runs, handlers, termQ, branch, dirty,
          staged, commits, head, lastCommitInfo, totalCommits, isRepo, undos,
          call, forged, armed, spent, ev>>


NoCmd == [message |-> <<>>, branch |-> "", push |-> FALSE]
NoInfo == [hash |-> -1, message |-> <<>>]
NoRun == [path |-> "", expires |-> 0]
\* no request was answered
NoResp == [net |-> "", status |-> 0, body |-> [kind |-> "", content |-> <<>>],
           style |-> ""]

\* the record of one handled event; every step sets ev to one of these
Ev0 == [op |-> "", path |-> "", guard |-> "", outcome |-> "", trace |-> <<>>,
        log |-> <<>>, warn |-> FALSE, cmd |-> NoCmd, sent |-> FALSE,
        autoPush |-> FALSE, dryRun |-> FALSE, branch |-> "",
        useEmoji |-> TRUE, fallback |-> <<>>, resp |-> NoResp,
        declined |-> FALSE, by |-> "", ran |-> <<>>, status |-> 0, made |-> 0,
        canPush |-> FALSE]


Plain(op, p) == [Ev0 EXCEPT !.op = op, !.path = p]

\* ------------------------------------------------------------ token guard
\* Guard without the nonce comparison
GuardNoNonce(tok, nonces, p, t) ==
    IF tok = NoToken \/ tok.path = "" THEN "NoToken"
    ELSE IF tok.expires = 0 \/ tok.expires < t THEN "TokenExpired"
    ELSE IF tok.path # p THEN "PathMismatch"
    ELSE "Authorized"

\* Guard without the path comparison
GuardNoPath(tok, nonces, p, t) ==
    IF tok = NoToken \/ tok.path = "" THEN "NoToken"
    ELSE IF tok.expires = 0 \/ tok.expires < t THEN "TokenExpired"
    ELSE IF tok.nonce = "" \/ nonces[p] \in {"", Absent} \/ tok.nonce # nonces[p]
         THEN "NonceMismatch"
    ELSE "Authorized"

\* Guard that lets a token through when no nonce is registered for the path
GuardMissingOk(tok, nonces, p, t) ==
    IF tok = NoToken \/ tok.path = "" THEN "NoToken"
    ELSE IF tok.expires = 0 \/ tok.expires < t THEN "TokenExpired"
    ELSE IF tok.path # p THEN "PathMismatch"
    ELSE IF tok.nonce = "" \/ (nonces[p] \notin {"", Absent} /\ tok.nonce # nonces[p])
         THEN "NonceMismatch"
    ELSE "Authorized"

\* handleSave, the four checks before "valid token"
Guard(tok, nonces, p, t) ==
    IF tok = NoToken \/ tok.path = "" THEN "NoToken"
    ELSE IF tok.expires = 0 \/ tok.expires < t THEN "TokenExpired"
    ELSE IF tok.path # p THEN "PathMismatch"
    ELSE IF tok.nonce = "" \/ nonces[p] \in {"", Absent} \/ tok.nonce # nonces[p]
         THEN "NonceMismatch"
    ELSE "Authorized"


\* TokenAfter that leaves the token in place once it has authorized a save
TokenAfterKeepUsed(g, tok) == IF g = "TokenExpired" THEN NoToken ELSE tok

\* TokenAfter that leaves an expired token in place
TokenAfterKeepExpired(g, tok) == IF g = "Authorized" THEN NoToken ELSE tok

\* TokenAfter that also clears the token a save of another path has found
TokenAfterClearMismatch(g, tok) ==
    IF g \in {"TokenExpired", "Authorized", "PathMismatch"} THEN NoToken ELSE tok

\* the persisted token once the guard has decided: workspaceState.update(key,
\* null) on expiry and on "valid token"
TokenAfter(g, tok) == IF g \in {"TokenExpired", "Authorized"} THEN NoToken ELSE tok

\* NoncesAfter that keeps the entry of an authorized save
NoncesAfterKeep(g, nonces, p) == nonces

\* the nonce map once the guard has decided: triggerNonces.delete(path) on
\* "valid token"
NoncesAfter(g, nonces, p) ==
    IF g = "Authorized" THEN [nonces EXCEPT ![p] = Absent] ELSE nonces

\* Policy without the protected-branch downgrade
PolicyNoDowngrade(cfg, rel, repoOk, br) ==
    IF ~MatchesAny(rel, cfg.watchGlobs)
    THEN [outcome |-> "unmatched", trace |-> <<"glob">>, log |-> <<>>,
          warn |-> FALSE, canPush |-> FALSE]
    ELSE IF ~cfg.autoCommit
    THEN [outcome |-> "disabled", trace |-> <<"glob", "autoCommit">>,
          log |-> <<"autoCommit disabled">>, warn |-> FALSE, canPush |-> FALSE]
    ELSE IF ~repoOk
    THEN [outcome |-> "notRepo", trace |-> <<"glob", "autoCommit", "repo">>,
          log |-> <<"not a git repository">>, warn |-> TRUE, canPush |-> FALSE]
    ELSE IF rel \in GitIgnored
    THEN [outcome |-> "ignored",
          trace |-> <<"glob", "autoCommit", "repo", "ignore">>,
          log |-> <<"file ignored by git">>, warn |-> FALSE, canPush |-> FALSE]
    ELSE IF MatchesAny(rel, DefaultSensitiveGlobs)
    THEN [outcome |-> "sensitive",
          trace |-> <<"glob", "autoCommit", "repo", "ignore", "sensitive">>,
          log |-> <<"sensitive file">>, warn |-> TRUE, canPush |-> FALSE]
    ELSE [outcome |-> "pass",
          trace |-> <<"glob", "autoCommit", "repo", "ignore", "sensitive", "branch">>,
          log |-> <<>>, warn |-> FALSE, canPush |-> cfg.autoPush]

\* Policy that skips a save while the working tree holds no change
PolicySkipsClean(cfg, rel, repoOk, br) ==
    IF dirty = {}
    THEN [outcome |-> "clean", trace |-> <<>>, log |-> <<"nothing to commit">>,
          warn |-> FALSE, canPush |-> FALSE]
    ELSE IF ~MatchesAny(rel, cfg.watchGlobs)
        THEN [outcome |-> "unmatched", trace |-> <<"glob">>, log |-> <<>>,
              warn |-> FALSE, canPush |-> FALSE]
        ELSE IF ~cfg.autoCommit
        THEN [outcome |-> "disabled", trace |-> <<"glob", "autoCommit">>,
              log |-> <<"autoCommit disabled">>, warn |-> FALSE, canPush |-> FALSE]
        ELSE IF ~repoOk
        THEN [outcome |-> "notRepo", trace |-> <<"glob", "autoCommit", "repo">>,
              log |-> <<"not a git repository">>, warn |-> TRUE, canPush |-> FALSE]
        ELSE IF rel \in GitIgnored
        THEN [outcome |-> "ignored",
              trace |-> <<"glob", "autoCommit", "repo", "ignore">>,
              log |-> <<"file ignored by git">>, warn |-> FALSE, canPush |-> FALSE]
        ELSE IF MatchesAny(rel, DefaultSensitiveGlobs)
        THEN [outcome |-> "sensitive",
              trace |-> <<"glob", "autoCommit", "repo", "ignore", "sensitive">>,
              log |-> <<"sensitive file">>, warn |-> TRUE, canPush |-> FALSE]
        ELSE IF cfg.autoPush /\ br \in Range(DefaultProtectedBranches)
        THEN [outcome |-> "pass",
              trace |-> <<"glob", "autoCommit", "repo", "ignore", "sensitive", "branch">>,
              log |-> <<"protected branch - no push">>, warn |-> FALSE,
              canPush |-> FALSE]
        ELSE [outcome |-> "pass",
              trace |-> <<"glob", "autoCommit", "repo", "ignore", "sensitive", "branch">>,
              log |-> <<>>, warn |-> FALSE, canPush |-> cfg.autoPush]

\* Policy that looks for the repository before it reads autoCommit
PolicyRepoFirst(cfg, rel, repoOk, br) ==
    IF ~MatchesAny(rel, cfg.watchGlobs)
    THEN [outcome |-> "unmatched", trace |-> <<"glob">>, log |-> <<>>,
          warn |-> FALSE, canPush |-> FALSE]
    ELSE IF ~repoOk
    THEN [outcome |-> "notRepo", trace |-> <<"glob", "repo">>,
          log |-> <<"not a git repository">>, warn |-> TRUE, canPush |-> FALSE]
    ELSE IF ~cfg.autoCommit
    THEN [outcome |-> "disabled", trace |-> <<"glob", "repo", "autoCommit">>,
          log |-> <<"autoCommit disabled">>, warn |-> FALSE, canPush |-> FALSE]
    ELSE IF rel \in GitIgnored
    THEN [outcome |-> "ignored",
          trace |-> <<"glob", "autoCommit", "repo", "ignore">>,
          log |-> <<"file ignored by git">>, warn |-> FALSE, canPush |-> FALSE]
    ELSE IF MatchesAny(rel, DefaultSensitiveGlobs)
    THEN [outcome |-> "sensitive",
          trace |-> <<"glob", "autoCommit", "repo", "ignore", "sensitive">>,
          log |-> <<"sensitive file">>, warn |-> TRUE, canPush |-> FALSE]
    ELSE IF cfg.autoPush /\ br \in Range(DefaultProtectedBranches)
    THEN [outcome |-> "pass",
          trace |-> <<"glob", "autoCommit", "repo", "ignore", "sensitive", "branch">>,
          log |-> <<"protected branch - no push">>, warn |-> FALSE,
          canPush |-> FALSE]
    ELSE [outcome |-> "pass",
          trace |-> <<"glob", "autoCommit", "repo", "ignore", "sensitive", "branch">>,
          log |-> <<>>, warn |-> FALSE, canPush |-> cfg.autoPush]

\* ------------------------------------------------------------ policy chain
\* handleSave, "VALIDATION CHECKS": the outcome, the checks evaluated, the
\* lines logged, the warning shown, and canPush
Policy(cfg, rel, repoOk, br) ==
    IF ~MatchesAny(rel, cfg.watchGlobs)
    THEN [outcome |-> "unmatched", trace |-> <<"glob">>, log |-> <<>>,
          warn |-> FALSE, canPush |-> FALSE]
    ELSE IF ~cfg.autoCommit
    THEN [outcome |-> "disabled", trace |-> <<"glob", "autoCommit">>,
          log |-> <<"autoCommit disabled">>, warn |-> FALSE, canPush |-> FALSE]
    ELSE IF ~repoOk
    THEN [outcome |-> "notRepo", trace |-> <<"glob", "autoCommit", "repo">>,
          log |-> <<"not a git repository">>, warn |-> TRUE, canPush |-> FALSE]
    ELSE IF rel \in GitIgnored
    THEN [outcome |-> "ignored",
          trace |-> <<"glob", "autoCommit", "repo", "ignore">>,
          log |-> <<"file ignored by git">>, warn |-> FALSE, canPush |-> FALSE]
    ELSE IF MatchesAny(rel, DefaultSensitiveGlobs)
    THEN [outcome |-> "sensitive",
          trace |-> <<"glob", "autoCommit", "repo", "ignore", "sensitive">>,
          log |-> <<"sensitive file">>, warn |-> TRUE, canPush |-> FALSE]
    ELSE IF cfg.autoPush /\ br \in Range(DefaultProtectedBranches)
    THEN [outcome |-> "pass",
          trace |-> <<"glob", "autoCommit", "repo", "ignore", "sensitive", "branch">>,
          log |-> <<"protected branch - no push">>, warn |-> FALSE,
          canPush |-> FALSE]
    ELSE [outcome |-> "pass",
          trace |-> <<"glob", "autoCommit", "repo", "ignore", "sensitive", "branch">>,
          log |-> <<>>, warn |-> FALSE, canPush |-> cfg.autoPush]

\* ---------------------------------------------------------------- executor
\* gitOps.buildCommitCommand: git add -A && git commit -m "<message>" ||
\* echo "nothing to commit" [&& git push origin <branch>]
buildCommitCommand(message, br, push) ==
    [message |-> message, branch |-> br, push |-> push]

\* buildCommitCommand, escapedMessage: message.replace(/"/g, '\\"')
\* .replace(/\$/g, '\\$'), from position i on
RECURSIVE escapedFrom(_, _)
escapedFrom(message, i) ==
    IF i > Len(message) THEN <<>>
    ELSE (IF message[i] \in {DQ, "$"} THEN <<BS, message[i]>> ELSE <<message[i]>>)
         \o escapedFrom(message, i + 1)


\* gitOps.getHeadCommit: the hash of HEAD (the position of its commit)
getHeadCommit == head

\* git add -A on the index
AddAll(idx, wt) == idx \cup wt

\* Finish that updates the statistics and the undo record in dry-run too
FinishCountsDryRun(h, message, e) ==
    LET fullCmd == buildCommitCommand(message, h.branch, ~h.dryRun /\ h.canPush)
    IN  /\ totalCommits < MaxSent
        /\ termQ' = IF h.dryRun THEN termQ
                    ELSE Append(termQ, [cmd |-> fullCmd, by |-> "handleSave",
                                        reset |-> ""])
        /\ totalCommits' = totalCommits + 1
        /\ lastCommitInfo' = [hash |-> getHeadCommit, message |-> message]
        /\ ev' = [e EXCEPT !.cmd = fullCmd, !.sent = ~h.dryRun,
                           !.log = e.log \o <<"cmd">>]

\* handleSave, "EXECUTE GIT COMMANDS": h holds the handler's locals (path,
\* autoPush, dryRun, canPush, branch), e the event record built so far
Finish(h, message, e) ==
    LET fullCmd == buildCommitCommand(message, h.branch, ~h.dryRun /\ h.canPush)
    IN  IF ~h.dryRun
        THEN /\ totalCommits < MaxSent
             /\ termQ' = Append(termQ, [cmd |-> fullCmd, by |-> "handleSave",
                                        reset |-> ""])
             /\ totalCommits' = totalCommits + 1
             /\ lastCommitInfo' = [hash |-> getHeadCommit, message |-> message]
             /\ ev' = [e EXCEPT !.cmd = fullCmd, !.sent = TRUE,
                                !.log = e.log \o <<"cmd">>]
        ELSE /\ UNCHANGED <<termQ, totalCommits, lastCommitInfo>>
             /\ ev' = [e EXCEPT !.cmd = fullCmd,
                                !.log = e.log \o <<"cmd", "dry run - not executing">>]

\* ------------------------------------------------------------------- Init
InitState ==
    /\ token = NoToken
    /\ triggerNonces = [p \in Paths |-> Absent]
    /\ now = 0
    /\ runs = <<>>
    /\ handlers = <<>>
    /\ termQ = <<>>
    /\ branch \in Branches
    /\ dirty = {}
    /\ staged = {}
    /\ commits = <<[files |-> {}, by |-> "", parent |-> 0]>>
    /\ head = 1
    /\ undos = <<>>
    /\ lastCommitInfo = NoInfo
    /\ totalCommits = 0
    /\ isRepo \in BOOLEAN
    /\ forged = FALSE
    /\ armed = NoRun
    /\ spent = ""
    /\ ev = Ev0

\* the state after activation
Init ==
    LET NoCall == [fn |-> "", arg |-> <<>>, out |-> <<>>, done |-> FALSE]
    IN
        InitState /\ call = NoCall

\* everything but the call checked on its own
others == <<token, triggerNonces, now, runs, handlers, termQ, branch, dirty,
            staged, commits, head, lastCommitInfo, totalCommits, isRepo, undos,
            forged, armed, spent, ev>>

\* a call of fn on arg is to be made
Pending(fn, arg) == [fn |-> fn, arg |-> arg, out |-> <<>>, done |-> FALSE]

\* ------------------------------------------------------------ save-and-run
\* saveAndRunCmd up to its first await: the token is stored for the active
\* editor's document
\* (nonce is the value Math.random() yields)
RunBegin(p, nonce) ==
    /\ Len(runs) < MaxRuns
    /\ LET expires == now + TokenTtl IN
         /\ token' = [path |-> p, nonce |-> nonce, expires |-> expires]
         /\ runs' = Append(runs, [docPath |-> p, nonce |-> nonce,
                                  expires |-> expires])
    /\ forged' = FALSE
    /\ armed' = NoRun
    /\ spent' = ""
    /\ ev' = Plain("saveAndRun", "")
    /\ UNCHANGED <<triggerNonces, now, handlers, termQ, branch, dirty, staged,
                   commits, lastCommitInfo, totalCommits, isRepo,
                   head, undos, call>>

\* saveAndRunCmd after the await: the nonce is registered, the line is
\* logged and the save is requested (the save event is a Save step)
RunSetNonce ==
    /\ runs # <<>>
    /\ LET r == Head(runs) IN
         /\ triggerNonces' = [triggerNonces EXCEPT ![r.docPath] = r.nonce]
         /\ armed' = IF Len(runs) = 1
                     THEN [path |-> r.docPath, expires |-> r.expires]
                     ELSE NoRun
         /\ ev' = [Plain("saveAndRunSet", r.docPath) EXCEPT !.log = <<"saveAndRun">>]
    /\ runs' = Tail(runs)
    /\ spent' = ""
    /\ UNCHANGED <<token, now, handlers, termQ, branch, dirty, staged, commits,
                   lastCommitInfo, totalCommits, isRepo,
                   head, undos, call, forged>>

\* ------------------------------------------------------------- save handler
RemoveAt(s, i) == SubSeq(s, 1, i - 1) \o SubSeq(s, i + 1, Len(s))

\* handleSave from the save event to its first await, or to its end when
\* nothing is awaited; cfg is the configuration it reads, tpl the template
\* pickRandom returns
handleSave(p, cfg, tpl) ==
    LET GuardLog(g) ==
            CASE g = "NoToken" -> <<"no trigger token">>
              [] g = "TokenExpired" -> <<"token expired">>
              [] g = "PathMismatch" -> <<"token path mismatch">>
              [] g = "NonceMismatch" -> <<"nonce mismatch">>
              [] OTHER -> <<"valid token">>
    IN
    LET GuardStages(g) ==
            CASE g = "NoToken" -> <<"token">>
              [] g = "TokenExpired" -> <<"token", "expiry">>
              [] g = "PathMismatch" -> <<"token", "expiry", "path">>
              [] OTHER -> <<"token", "expiry", "path", "nonce">>
    IN
    LET g == Guard(token, triggerNonces, p, now)
        e0 == [Plain("save", p) EXCEPT !.guard = g, !.trace = GuardStages(g),
                                        !.log = GuardLog(g)]
    IN
    /\ armed' = IF armed.path = p THEN NoRun ELSE armed
    /\ UNCHANGED <<now, runs, branch, dirty, commits, isRepo,
                   head, undos>>
    /\ token' = TokenAfter(g, token)
    /\ forged' = (forged /\ token' # NoToken)
    /\ triggerNonces' = NoncesAfter(g, triggerNonces, p)
    /\ IF g # "Authorized"
       THEN /\ ev' = e0
            /\ UNCHANGED <<handlers, termQ, staged, lastCommitInfo,
                           totalCommits, spent>>
       ELSE /\ spent' = p
            /\   LET pol == Policy(cfg, p, isRepo, branch)
                     message == getSmartMessageWithFile(tpl, FileName(p),
                                                        cfg.useEmoji)
                     e1 == [e0 EXCEPT !.outcome = pol.outcome,
                                      !.trace = e0.trace \o pol.trace,
                                      !.log = e0.log \o pol.log,
                                      !.warn = pol.warn,
                                      !.canPush = pol.canPush,
                                      !.autoPush = pol.outcome = "pass" /\ cfg.autoPush,
                                      !.dryRun = pol.outcome = "pass" /\ cfg.dryRun,
                                      !.branch = IF pol.outcome = "pass"
                                                 THEN branch ELSE "",
                                      !.useEmoji = pol.outcome = "pass" => cfg.useEmoji,
                                      !.fallback = IF pol.outcome = "pass"
                                                   THEN message ELSE <<>>]
                     h == [path |-> p, autoPush |-> cfg.autoPush,
                           dryRun |-> cfg.dryRun, canPush |-> pol.canPush,
                           branch |-> branch, useEmoji |-> cfg.useEmoji,
                           message |-> message, pc |-> "prompt"]
                 IN
                 IF pol.outcome # "pass"
                 THEN /\ ev' = e1
                      /\ UNCHANGED <<handlers, termQ, staged, lastCommitInfo,
                                     totalCommits>>
                 ELSE IF cfg.ai /\ ~cfg.hasKey
                 THEN \* await showInputBox
                      /\ Len(handlers) < MaxHandlers
                      /\ handlers' = Append(handlers, h)
                      /\ ev' = [e1 EXCEPT !.log = e1.log \o <<"AI config", "No API key, prompting">>]
                      /\ UNCHANGED <<termQ, staged, lastCommitInfo, totalCommits>>
                 ELSE IF cfg.ai
                 THEN \* getStagedDiff, then await generateCommitMessage
                      /\ Len(handlers) < MaxHandlers
                      /\ handlers' = Append(handlers, [h EXCEPT !.pc = "gen"])
                      /\ staged' = AddAll(staged, dirty)
                      /\ ev' = [e1 EXCEPT !.log = e1.log \o <<"AI config", "generating AI message">>]
                      /\ UNCHANGED <<termQ, lastCommitInfo, totalCommits>>
                 ELSE /\ Finish(h, message, [e1 EXCEPT !.log = e1.log \o <<"AI config">>])
                      /\ UNCHANGED <<handlers, staged>>

\* a save event of p
Save(p, cfg, tpl) == handleSave(p, cfg, tpl) /\ UNCHANGED call

\* the credential prompt is answered (entered) or dismissed
PromptAnswer(i, entered) ==
    /\ i \in 1..Len(handlers)
    /\ handlers[i].pc = "prompt"
    /\ LET h == handlers[i]
           e == [Plain("resume", h.path) EXCEPT !.guard = "Authorized",
                     !.outcome = "pass", !.autoPush = h.autoPush,
                     !.dryRun = h.dryRun, !.branch = h.branch,
                     !.canPush = h.canPush,
                     !.useEmoji = h.useEmoji, !.fallback = h.message,
                     !.declined = ~entered]
       IN  IF entered
           THEN /\ handlers' = [handlers EXCEPT ![i].pc = "gen"]
                /\ staged' = AddAll(staged, dirty)
                /\ ev' = [e EXCEPT !.log = <<"generating AI message">>]
                /\ UNCHANGED <<termQ, lastCommitInfo, totalCommits>>
           ELSE /\ handlers' = RemoveAt(handlers, i)
                /\ Finish(h, h.message, e)
                /\ UNCHANGED staged
    /\ UNCHANGED <<token, triggerNonces, now, runs, branch, dirty, commits,
                   isRepo,
                   head, undos, call, forged, armed, spent>>

\* generateCommitMessage settles; resp is what the backend did
GenReturn(i, resp) ==
    /\ i \in 1..Len(handlers)
    /\ handlers[i].pc = "gen"
    /\ LET h == handlers[i]
           m == MessageAfterGen(h.message, generateCommitMessage(resp),
                                h.useEmoji)
           e == [Plain("resume", h.path) EXCEPT !.guard = "Authorized",
                     !.outcome = "pass", !.autoPush = h.autoPush,
                     !.dryRun = h.dryRun, !.branch = h.branch,
                     !.canPush = h.canPush,
                     !.useEmoji = h.useEmoji, !.fallback = h.message,
                     !.resp = resp, !.log = <<m.log>>]
       IN  /\ handlers' = RemoveAt(handlers, i)
           /\ Finish(h, m.message, e)
    /\ UNCHANGED <<token, triggerNonces, now, runs, branch, dirty, staged,
                   commits, isRepo,
                   head, undos, call, forged, armed, spent>>

\* ------------------------------------------------------------- run once
\* runOnceCmd, with a.txt in the active editor (the document only names the
\* message)
RunOnce(cfg) ==
    /\ isRepo
    /\   LET message == <<"M", "a", "n", "u", "a", "l", ":", " ">> \o FileName("a.txt")
             cmd == buildCommitCommand(message, branch, ~cfg.dryRun /\ cfg.autoPush)
             e == [Plain("runOnce", "") EXCEPT !.cmd = cmd,
                       !.autoPush = cfg.autoPush, !.dryRun = cfg.dryRun,
                       !.branch = branch]
         IN  IF ~cfg.dryRun
             THEN /\ totalCommits < MaxSent
                  /\ termQ' = Append(termQ, [cmd |-> cmd, by |-> "runOnce",
                                             reset |-> ""])
                  /\ totalCommits' = totalCommits + 1
                  /\ ev' = [e EXCEPT !.sent = TRUE]
             ELSE /\ UNCHANGED <<termQ, totalCommits>>
                  /\ ev' = [e EXCEPT !.log = <<"Dry run: cmd">>]
    /\ UNCHANGED <<token, triggerNonces, now, runs, handlers, branch, dirty,
                   staged, commits, lastCommitInfo, isRepo,
                   head, undos, call, forged,
                   armed, spent>>

\* ------------------------------------------------------------- environment
\* CommandSteps without the alternative to a failed commit
CommandStepsNoEcho(cmd) ==
    <<[op |-> "", run |-> "cd"], [op |-> "&&", run |-> "add"],
      [op |-> "&&", run |-> "commit"]>>
    \o (IF cmd.push THEN <<[op |-> "&&", run |-> "push"]>> ELSE <<>>)

\* gitOps.buildCommitCommand, the and-or list of its command line: cd "<ws>"
\* && git add -A && git commit -m "<message>" || echo "nothing to commit"
\* [&& git push origin <branch>]
CommandSteps(cmd) ==
    <<[op |-> "", run |-> "cd"], [op |-> "&&", run |-> "add"],
      [op |-> "&&", run |-> "commit"], [op |-> "||", run |-> "echo"]>>
    \o (IF cmd.push THEN <<[op |-> "&&", run |-> "push"]>> ELSE <<>>)


\* the shell on an and-or list, from step i on: && and || have the same
\* precedence and associate to the left; exit gives each command's status,
\* acc the status so far and the commands run
RECURSIVE ShellRun(_, _, _, _)
ShellRun(steps, exit, i, acc) ==
    IF i > Len(steps) THEN acc
    ELSE LET st == steps[i]
             runsIt == \/ i = 1
                       \/ st.op = "&&" /\ acc.status = 0
                       \/ st.op = "||" /\ acc.status # 0
         IN  ShellRun(steps, exit, i + 1,
                      IF runsIt
                      THEN [status |-> exit[st.run], ran |-> Append(acc.ran, st.run)]
                      ELSE acc)

\* the shell runs the oldest command line sent to the terminal; pushOk is
\* whether a push would get through
TermExec(pushOk) ==
    LET \* gitOps.buildResetCommand: cd "<ws>" && git reset --soft|--hard HEAD~1
        ResetSteps == <<[op |-> "", run |-> "cd"], [op |-> "&&", run |-> "reset"]>>
    IN
    /\ termQ # <<>>
    /\ pushOk \/ Head(termQ).cmd.push
    /\ LET t == Head(termQ)
           idx == AddAll(staged, dirty)
           parent == commits[head].parent
           exit == [cd |-> 0, add |-> 0, echo |-> 0,
                    commit |-> IF idx = {} THEN 1 ELSE 0,
                    push |-> IF pushOk THEN 0 ELSE 1,
                    reset |-> IF parent = 0 THEN 128 ELSE 0]
           r == ShellRun(IF t.reset # "" THEN ResetSteps ELSE CommandSteps(t.cmd),
                         exit, 1, [status |-> 0, ran |-> <<>>])
           committed == "commit" \in Range(r.ran) /\ idx # {}
           didReset == "reset" \in Range(r.ran) /\ parent # 0
       IN  /\ commits' = IF committed
                         THEN Append(commits, [files |-> idx, by |-> t.by,
                                               parent |-> head])
                         ELSE commits
           /\ head' = IF committed THEN Len(commits) + 1
                      ELSE IF didReset THEN parent ELSE head
           /\ dirty' = IF committed THEN dirty \ idx
                       ELSE IF didReset /\ t.reset = "hard" THEN {} ELSE dirty
           /\ staged' = IF "add" \in Range(r.ran) THEN {}
                        ELSE IF didReset /\ t.reset = "hard" THEN {}
                        ELSE IF didReset THEN staged \cup commits[head].files
                        ELSE staged
           /\ ev' = [Plain("term", "") EXCEPT !.by = t.by, !.ran = r.ran,
                         !.status = r.status,
                         !.made = IF committed THEN Len(commits) + 1 ELSE 0]
    /\ termQ' = Tail(termQ)
    /\ UNCHANGED <<token, triggerNonces, now, runs, handlers, branch,
                   lastCommitInfo, totalCommits, isRepo, undos, call,
                   forged, armed, spent>>

\* ------------------------------------------------- the command line, run
\* the shell runs the command line built for call.arg.cmd; each command of
\* it goes as call.arg says: cd and git add -A succeed or fail, git commit
\* creates a commit (exit 0), finds nothing to commit (exit 1) or fails for
\* another reason (a hook, no identity: exit 1), git push gets through or not
ShellExec ==
    /\ call.fn = "shell" /\ ~call.done
    /\ LET a == call.arg
           exit == [cd |-> IF a.cdOk THEN 0 ELSE 1,
                    add |-> IF a.addOk THEN 0 ELSE 128,
                    commit |-> IF a.commit = "created" THEN 0 ELSE 1,
                    echo |-> 0,
                    push |-> IF a.pushOk THEN 0 ELSE 1]
       IN  call' = [call EXCEPT
                       !.out = ShellRun(CommandSteps(a.cmd), exit, 1,
                                        [status |-> 0, ran |-> <<>>]),
                       !.done = TRUE]
    /\ UNCHANGED others

InitShell ==
    /\ InitState /\ isRepo /\ branch = "feat"
    /\ call \in {Pending("shell", a) :
                    a \in [cmd : {buildCommitCommand(<<"m">>, b, push) :
                                     b \in Branches, push \in BOOLEAN},
                           cdOk : BOOLEAN, addOk : BOOLEAN,
                           commit : {"created", "nothing", "failed"},
                           pushOk : BOOLEAN]}

SpecShell == InitShell /\ [][ShellExec]_vars

\* ---------------------------------------------------------------------- undo
\* UndoBegin without the comparison of HEAD with the recorded hash
UndoBeginNoHeadCheck ==
    /\ IF lastCommitInfo = NoInfo
       THEN /\ ev' = [Plain("undo", "") EXCEPT !.outcome = "none", !.warn = TRUE,
                          !.log = <<"No recent commit to undo">>]
            /\ UNCHANGED undos
       ELSE /\ Len(undos) < MaxUndos
            /\ undos' = Append(undos, [pc |-> "confirm"])
            /\ ev' = [Plain("undo", "") EXCEPT !.outcome = "asked"]
    /\ UNCHANGED <<token, triggerNonces, now, runs, handlers, termQ, branch,
                   dirty, staged, commits, head, lastCommitInfo, totalCommits,
                   isRepo, call, forged, armed, spent>>

\* undoLastCommitCmd up to its await: the two checks, then the modal question
UndoBegin ==
    /\ IF lastCommitInfo = NoInfo
       THEN /\ ev' = [Plain("undo", "") EXCEPT !.outcome = "none", !.warn = TRUE,
                          !.log = <<"No recent commit to undo">>]
            /\ UNCHANGED undos
       ELSE IF getHeadCommit # lastCommitInfo.hash
       THEN /\ ev' = [Plain("undo", "") EXCEPT !.outcome = "moved", !.warn = TRUE,
                          !.log = <<"HEAD has changed - cannot undo">>]
            /\ UNCHANGED undos
       ELSE /\ Len(undos) < MaxUndos
            /\ undos' = Append(undos, [pc |-> "confirm"])
            /\ ev' = [Plain("undo", "") EXCEPT !.outcome = "asked"]
    /\ UNCHANGED <<token, triggerNonces, now, runs, handlers, termQ, branch,
                   dirty, staged, commits, head, lastCommitInfo, totalCommits,
                   isRepo, call, forged, armed, spent>>

\* the question is answered: "" (dismissed), "soft" or "hard"
UndoConfirm(i, choice) ==
    /\ i \in 1..Len(undos)
    /\ undos' = RemoveAt(undos, i)
    /\ IF choice = ""
       THEN /\ ev' = [Plain("undoAnswer", "") EXCEPT !.outcome = "dismissed"]
            /\ UNCHANGED <<termQ, lastCommitInfo>>
       ELSE IF lastCommitInfo = NoInfo
       THEN \* state.lastCommitInfo.workspace of null: a TypeError
            /\ ev' = [Plain("undoAnswer", "") EXCEPT !.outcome = "threw"]
            /\ UNCHANGED <<termQ, lastCommitInfo>>
       ELSE /\ termQ' = Append(termQ, [cmd |-> NoCmd, by |-> "undo",
                                       reset |-> choice])
            /\ lastCommitInfo' = NoInfo
            /\ ev' = [Plain("undoAnswer", "") EXCEPT !.outcome = choice,
                          !.sent = TRUE]
    /\ UNCHANGED <<token, triggerNonces, now, runs, handlers, branch, dirty,
                   staged, commits, head, totalCommits, isRepo, call,
                   forged, armed, spent>>

\* time passes
Tick ==
    /\ now < MaxTicks * TickMs
    /\ now' = now + TickMs
    /\ ev' = Plain("tick", "")
    /\ UNCHANGED <<token, triggerNonces, runs, handlers, termQ, branch, dirty,
                   staged, commits, lastCommitInfo, totalCommits,
                   isRepo,
                   head, undos, call, forged, armed, spent>>

\* another branch is checked out
Checkout(b) ==
    /\ isRepo
    /\ b # branch
    /\ branch' = b
    /\ ev' = Plain("env", "")
    /\ UNCHANGED <<token, triggerNonces, now, runs, handlers, termQ, dirty,
                   staged, commits, lastCommitInfo, totalCommits,
                   isRepo,
                   head, undos, call, forged, armed, spent>>

\* a tracked file is changed in the working tree
EditFile(f) ==
    /\ isRepo
    /\ f \notin dirty
    /\ Len(commits) - 1 < MaxCommits
    /\ dirty' = dirty \cup {f}
    /\ ev' = Plain("env", "")
    /\ UNCHANGED <<token, triggerNonces, now, runs, handlers, termQ, branch,
                   staged, commits, lastCommitInfo, totalCommits,
                   isRepo,
                   head, undos, call, forged, armed, spent>>

\* the persisted token is written by something other than this process
ExternalWrite(p, nonce, expires) ==
    /\ token' = [path |-> p, nonce |-> nonce, expires |-> expires]
    /\ token' # token
    /\ forged' = TRUE
    /\ armed' = NoRun
    /\ spent' = ""
    /\ ev' = Plain("external", p)
    /\ UNCHANGED <<triggerNonces, now, runs, handlers, termQ, branch, dirty,
                   staged, commits, lastCommitInfo, totalCommits, isRepo,
                   head, undos, call>>

\* the configurations a save of p gets to read: the handler reads the
\* configuration only after the guard has let the save through
CfgsRead(p, cfgs) ==
    LET NoCfg == [watchGlobs |-> DefaultWatchGlobs, autoCommit |-> FALSE,
                  autoPush |-> FALSE, dryRun |-> TRUE, ai |-> FALSE, hasKey |-> FALSE,
                  useEmoji |-> TRUE]
    IN
    IF Guard(token, triggerNonces, p, now) = "Authorized" THEN cfgs ELSE {NoCfg}

\* a save event of p under one of the configurations cfgs, with one of the
\* templates tpls picked
SaveEvent(p, cfgs, tpls) ==
    \E cfg \in CfgsRead(p, cfgs), tpl \in tpls : Save(p, cfg, tpl)

\* the template picked where the message is not looked at
OneTemplate == {<<"U", "p", "d", "a", "t", "e", " ", "c", "o", "d", "e">>}

\* an answer of the backend with a message, and one with HTTP 500
OkResp == [net |-> "ok", status |-> 200,
           body |-> [kind |-> "content", content |-> <<"f", "i", "x">>],
           style |-> "short"]
Http500 == [net |-> "ok", status |-> 500,
            body |-> [kind |-> "content", content |-> <<"f", "i", "x">>],
            style |-> "short"]

\* the documents opened in the editor and the settings used while the guard
\* is exercised: autoPush off
GuardPaths == {"a.txt", "credentials.json"}
GuardCfgs == {c \in Cfgs : ~c.autoPush /\ c.useEmoji}

\* the guard under every save-and-run, save and clock interleaving, on a
\* repository nothing else touches
Next ==
    \/ \E p \in GuardPaths, nonce \in NonceValues : RunBegin(p, nonce)
    \/ RunSetNonce
    \/ \E p \in GuardPaths : SaveEvent(p, GuardCfgs, OneTemplate)
    \/ \E i \in 1..MaxHandlers, entered \in BOOLEAN : PromptAnswer(i, entered)
    \/ \E i \in 1..MaxHandlers, resp \in {OkResp, Http500} : GenReturn(i, resp)
    \/ Tick

\* a repository on an unprotected branch
InitGuard == Init /\ isRepo /\ branch = "feat"

Spec == InitGuard /\ [][Next]_vars

\* forged tokens: the guard with writes to the persisted token from outside
\* the process, generation switched off
ExtPaths == {"a.txt", "tmp.txt"}

NextExt ==
    \/ \E p \in ExtPaths, nonce \in NonceValues : RunBegin(p, nonce)
    \/ RunSetNonce
    \/ \E p \in ExtPaths : SaveEvent(p, ({c \in GuardCfgs : c.watchGlobs = DefaultWatchGlobs /\ ~c.ai /\ ~c.hasKey}), OneTemplate)
    \/ Tick
    \/ \E p \in ExtPaths, nonce \in NonceValues,
         expires \in {0, now + TokenTtl} : ExternalWrite(p, nonce, expires)

SpecExt == InitGuard /\ [][NextExt]_vars

\* the policy chain and the executor on a repository that is edited, switched
\* between branches and committed to: one document, one nonce value, a still
\* clock, generation either off or on with a credential
RepoDocs == {"a.txt"}

NextRepo ==
    \/ \E p \in RepoDocs : RunBegin(p, "k7")
    \/ RunSetNonce
    \/ \E p \in RepoDocs : SaveEvent(p, ({c \in Cfgs : c.watchGlobs = DefaultWatchGlobs /\ c.ai = c.hasKey
                                                       /\ c.useEmoji}), OneTemplate)
    \/ \E i \in 1..MaxHandlers, resp \in {OkResp, Http500} : GenReturn(i, resp)
    \/ \E cfg \in ({c \in Cfgs : c.watchGlobs = DefaultWatchGlobs /\ c.autoCommit
                                 /\ ~c.ai /\ ~c.hasKey /\ c.useEmoji}) : RunOnce(cfg)
    \/ \E pushOk \in BOOLEAN : TermExec(pushOk)
    \/ \E b \in Branches : Checkout(b)
    \/ \E f \in Tracked : EditFile(f)

SpecRepo == Init /\ [][NextRepo]_vars

\* message generation: one document, generation switched on, with and without
\* a credential and emoji, every template and every kind of answer
Resp(net, status, kind, content, style) ==
    [net |-> net, status |-> status, body |-> [kind |-> kind, content |-> content],
     style |-> style]

GenResponses ==
    { Resp("error", 0, "empty", <<>>, "short"),
      Resp("timeout", 0, "empty", <<>>, "short"),
      Http500,
      Resp("ok", 200, "malformed", <<>>, "short"),
      Resp("ok", 200, "null", <<>>, "medium"),
      Resp("ok", 200, "error", <<>>, "medium"),
      Resp("ok", 200, "empty", <<>>, "detailed"),
      Resp("ok", 200, "content", <<" ", NL>>, "medium"),
      Resp("ok", 200, "content", <<DQ, DQ>>, "medium"),
      OkResp,
      Resp("ok", 200, "content", <<Sparkles, " ", "f", "i", "x">>, "short"),
      Resp("ok", 200, "content", <<Sparkles>>, "short"),
      Resp("ok", 200, "content", <<"f", "i", "x", NL, NL, "-", " ", "a">>, "medium") }

GenDocs == {"a.txt"}

NextGen ==
    \/ \E p \in GenDocs : RunBegin(p, "k7")
    \/ RunSetNonce
    \/ \E p \in GenDocs : SaveEvent(p, ({c \in Cfgs : c.watchGlobs = DefaultWatchGlobs /\ c.autoCommit
                                                      /\ ~c.autoPush /\ c.ai}), Templates)
    \/ \E i \in 1..MaxHandlers, entered \in BOOLEAN : PromptAnswer(i, entered)
    \/ \E i \in 1..MaxHandlers, resp \in GenResponses : GenReturn(i, resp)

SpecGen == InitGuard /\ [][NextGen]_vars

\* suspended handlers: one document with generation switched on; the backend
\* answers, fails or stays silent, and the request's timer runs
\* req.setTimeout(API_CONFIG.timeout) with its 'timeout' listener: the timer
\* of a request is armed
RequestTimeoutNotSet == FALSE
RequestTimeoutSet == TRUE

LiveCfgs == {c \in Cfgs : c.watchGlobs = DefaultWatchGlobs /\ c.autoCommit
                          /\ ~c.autoPush /\ c.ai /\ c.useEmoji}

\* a save event, taken while every handler in flight can still send its
\* command
SaveLive(p) ==
    /\ totalCommits + Len(handlers) < MaxSent
    /\ SaveEvent(p, LiveCfgs, OneTemplate)

\* the backend answers the request of handler i
GenAnswer(i, resp) == GenReturn(i, resp)

\* no byte arrived for API_CONFIG.timeout ms: 'timeout' destroys the request
\* of handler i and rejects with 'Request timeout'
GenTimeout(i) ==
    /\ RequestTimeoutSet
    /\ GenReturn(i, Resp("timeout", 0, "empty", <<>>, "short"))

NextLive ==
    \/ \E p \in GenDocs : RunBegin(p, "k7")
    \/ RunSetNonce
    \/ \E p \in GenDocs : SaveLive(p)
    \/ \E i \in 1..MaxHandlers, entered \in BOOLEAN : PromptAnswer(i, entered)
    \/ \E i \in 1..MaxHandlers, resp \in {OkResp, Http500} : GenAnswer(i, resp)
    \/ \E i \in 1..MaxHandlers : GenTimeout(i)
    \/ Tick

\* the timer fires unless the request settled before; the prompt is answered
\* or dismissed
SpecLive ==
    /\ InitGuard /\ [][NextLive]_vars
    /\ \A i \in 1..MaxHandlers :
          /\ WF_vars(GenTimeout(i))
          /\ WF_vars(\E entered \in BOOLEAN : PromptAnswer(i, entered))

\* undo: commits by the save handler and by run-once on an edited
\* repository, and undo requests at any moment
UndoDocs == {"a.txt"}
UndoCfgs == {c \in Cfgs : c.watchGlobs = DefaultWatchGlobs /\ c.autoCommit
                          /\ ~c.autoPush /\ ~c.ai /\ ~c.hasKey /\ c.useEmoji}

NextUndo ==
    \/ \E p \in UndoDocs : RunBegin(p, "k7")
    \/ RunSetNonce
    \/ \E p \in UndoDocs : SaveEvent(p, UndoCfgs, OneTemplate)
    \/ \E cfg \in ({c \in UndoCfgs : ~c.dryRun}) : RunOnce(cfg)
    \/ \E pushOk \in BOOLEAN : TermExec(pushOk)
    \/ \E f \in Tracked : EditFile(f)
    \/ UndoBegin
    \/ \E i \in 1..MaxUndos, choice \in {"", "soft", "hard"} : UndoConfirm(i, choice)

SpecUndo == InitGuard /\ [][NextUndo]_vars

\* the policy chain run again and again: saves of three documents under
\* dry-run settings that stay as they are (call.arg), on a repository that
\* is edited and switched between branches; call.out keeps, for every
\* authorized save, what the chain read and what it decided
PolicyDocs == {"a.txt", "credentials.json", "tmp.txt"}

\* a save event of p whose decision is kept
SaveDecided(p, cfg, tpl) ==
    /\ handleSave(p, cfg, tpl)
    /\ IF ev'.guard = "Authorized"
       THEN /\ Len(call.out) < MaxDecisions
            /\ call' = [call EXCEPT !.out =
                           Append(@, [cfg |-> cfg, path |-> p, repoOk |-> isRepo,
                                      branch |-> branch, outcome |-> ev'.outcome,
                                      canPush |-> ev'.canPush])]
       ELSE UNCHANGED call

NextPolicy ==
    \/ \E p \in PolicyDocs : RunBegin(p, "k7")
    \/ RunSetNonce
    \/ \E p \in PolicyDocs : \E cfg \in CfgsRead(p, {call.arg}), tpl \in OneTemplate :
          SaveDecided(p, cfg, tpl)
    \/ \E b \in Branches : Checkout(b)
    \/ EditFile("a.txt")

InitPolicy ==
    LET PolicyCfgs == {c \in Cfgs : c.dryRun /\ ~c.ai /\ ~c.hasKey /\ c.useEmoji}
    IN
              InitState /\ call \in {Pending("policy", cfg) : cfg \in PolicyCfgs}

SpecPolicy == InitPolicy /\ [][NextPolicy]_vars

\* -------------------------------------------------- the message composer
\* handleSave, "GENERATE COMMIT MESSAGE": the message handed to the executor
\* for a document named a.fileName, with a.tpl the template picked, a.gen
\* whether generation runs (enabled, with a credential) and a.resp the
\* backend's answer
ComposeMessage(a) ==
    LET message == getSmartMessageWithFile(a.tpl, a.fileName, a.useEmoji)
    IN  IF a.gen
        THEN MessageAfterGen(message, generateCommitMessage(a.resp),
                             a.useEmoji).message
        ELSE message

\* the call of the composer is made
Compose ==
    /\ call.fn = "compose" /\ ~call.done
    /\ call' = [call EXCEPT !.out = ComposeMessage(call.arg), !.done = TRUE]
    /\ UNCHANGED others

FileNames ==
    LET \* names of documents: a letter run of each length, and the extension
        FileNameLens == {1, 8, 58, 59, 60, 100, 255}
    IN
             {Rep("f", n) \o <<".", "t", "x", "t">> : n \in FileNameLens}


InitCompose ==
    LET ComposeInputs ==
            LET ComposeResponses ==
                    LET \* answers with a subject of each length around the limit, alone or followed
                        \* by a long line of body, in each length tier
                        SubjectLens == {1, 50, 72, 73, 80}
                    IN
                    {Resp("ok", 200, "content", Rep("a", n) \o body, style) :
                        n \in SubjectLens,
                        body \in {<<>>, <<NL, NL>> \o Rep("b", 90)},
                        style \in {"short", "medium", "detailed"}}
                    \cup {Resp("ok", 200, "content",
                               <<Sparkles, NL, NL>> \o Rep("b", 90), "medium"), Http500}
            IN
            [tpl : Templates, fileName : FileNames, useEmoji : BOOLEAN, gen : {TRUE},
             resp : ComposeResponses]
            \cup [tpl : Templates, fileName : FileNames, useEmoji : BOOLEAN,
                  gen : {FALSE}, resp : {NoResp}]
    IN
    /\ InitState /\ isRepo /\ branch = "feat"
    /\ call \in {Pending("compose", a) : a \in ComposeInputs}

SpecCompose == InitCompose /\ [][Compose]_vars

\* ---------------------------------------------- the fallback message picker
\* pickRandom: the values arr[Math.floor(Math.random() * arr.length)] can
\* take; <<>> stands for null
pickRandom(arr) == IF Len(arr) = 0 THEN {<<>>} ELSE Range(arr)

\* the generic pool of a template table: none, one or two messages (the
\* table loadMessages falls back to has three)
GenericPools ==
    {<<>>,
     <<<<Sparkles, " ", "U", "p", "d", "a", "t", "e", " ", "c", "o", "d", "e">>>>,
     <<<<Sparkles, " ", "U", "p", "d", "a", "t", "e", " ", "c", "o", "d", "e">>,
       <<BugEmoji, " ", "M", "i", "n", "o", "r", " ", "c", "h", "a", "n", "g", "e", "s">>>>}

\* getSmartMessageWithFile is called on the document of call.arg, for a file
\* that no byFilename, byPath or byExtension rule matches; call.out keeps the
\* messages of the calls made
FallbackCall ==
    /\ call.fn = "fallback" /\ ~call.done
    /\ \E picked \in pickRandom(call.arg.table) :
          LET msg == IF picked = <<>> THEN CHOOSE t \in OneTemplate : TRUE
                     ELSE picked
              message == getSmartMessageWithFile(msg, call.arg.fileName,
                                                 call.arg.useEmoji)
          IN  call' = [call EXCEPT !.out = Append(@, message),
                                   !.done = Len(call.out) = 1]
    /\ UNCHANGED others

InitFallback ==
    /\ InitState /\ isRepo /\ branch = "feat"
    /\ call \in {Pending("fallback", a) :
                    a \in [table : GenericPools, fileName : FileNames,
                           useEmoji : BOOLEAN]}

SpecFallback == InitFallback /\ [][FallbackCall]_vars

\* ------------------------------------------------ diff and context extractor
\* getStagedDiff's maxLength, and the length of the document excerpt
MaxDiffLength == 8000
ExcerptLength == 2000
\* '\n...(truncated)'
TruncationMarker ==
    <<NL, ".", ".", ".", "(", "t", "r", "u", "n", "c", "a", "t", "e", "d", ")">>

\* gitOps.getStagedDiff on a repository r: git add -A, then git diff --cached
\* (r.cached is what it prints once everything is staged); either command
\* failing makes execSync throw, and the catch returns ''
getStagedDiff(r) ==
    IF r.addFails \/ r.diffFails THEN <<>>
    ELSE IF Len(r.cached) > MaxDiffLength
    THEN SubSeq(r.cached, 1, MaxDiffLength) \o TruncationMarker
    ELSE r.cached

\* gitOps.getFileDiff: git diff -- "<file>", what the working tree holds that
\* the index does not; '' when the command fails
getFileDiff(r) == IF r.diffFails THEN <<>> ELSE r.unstaged

\* handleSave, "Get diff": the first of the three sources that is not empty
EvidenceFor(r, text) ==
    LET stagedDiff == getStagedDiff(r)
        fileDiff == getFileDiff(r)
    IN  IF stagedDiff # <<>> THEN stagedDiff
        ELSE IF fileDiff # <<>> THEN fileDiff
        ELSE SubSeq(text, 1, IF Len(text) < ExcerptLength THEN Len(text)
                                ELSE ExcerptLength)

\* the call of the extractor is made
Extract ==
    /\ call.fn = "evidence" /\ ~call.done
    /\ call' = [call EXCEPT !.out = EvidenceFor(call.arg.repo, call.arg.text),
                            !.done = TRUE]
    /\ UNCHANGED others

\* repositories and documents around the two limits; once git add -A went
\* through, the working tree holds nothing the index does not
InitExtract ==
    LET sizes == {0, 1, MaxDiffLength, MaxDiffLength + 1,
                  MaxDiffLength + Len(TruncationMarker) + 1}
        texts == {0, ExcerptLength, ExcerptLength + 1}
        repos == {r \in [addFails : BOOLEAN, diffFails : BOOLEAN,
                         cached : {Rep("+", n) : n \in sizes},
                         unstaged : {Rep("-", n) : n \in sizes}] :
                     /\ ~r.addFails => r.unstaged = <<>>
                     /\ r.addFails => r.cached = <<>>}
    IN  /\ InitState /\ isRepo /\ branch = "feat"
        /\ call \in {Pending("evidence", [repo |-> r, text |-> Rep("t", n)]) :
                        r \in repos, n \in texts}

SpecExtract == InitExtract /\ [][Extract]_vars

\* ------------------------------------------------ escaping for the shell
\* the call of buildCommitCommand's escaping is made
Escape ==
    LET escapedMessage(message) == escapedFrom(message, 1)
    IN
    /\ call.fn = "escape" /\ ~call.done
    /\ call' = [call EXCEPT !.out = escapedMessage(call.arg), !.done = TRUE]
    /\ UNCHANGED others

\* the messages of at most n characters over the alphabet
RECURSIVE Strings(_, _)
Strings(alphabet, n) ==
    IF n = 0 THEN {<<>>}
    ELSE Strings(alphabet, n - 1)
         \cup {Append(m, c) : m \in Strings(alphabet, n - 1), c \in alphabet}


InitEscape ==
    LET EscapeInputs == Strings({DQ, BS, "$", "a"}, MaxMsgLen)
    IN
    /\ InitState /\ isRepo /\ branch = "feat"
    /\ call \in {Pending("escape", m) : m \in EscapeInputs}

SpecEscape == InitEscape /\ [][Escape]_vars

\* ------------------------------------------------------- change analyzer
\* String.prototype.startsWith
StartsWith(line, prefix) ==
    Len(line) >= Len(prefix) /\ SubSeq(line, 1, Len(prefix)) = prefix


\* determineComplexity whose multi-file adjustment is left out
determineComplexityNoAdjust(totalChanges, filesChanged) ==
    IF totalChanges <= 5 THEN "trivial"
    ELSE IF totalChanges <= 20 THEN "simple"
    ELSE IF totalChanges <= 50 THEN "moderate"
    ELSE IF totalChanges <= 150 THEN "complex"
    ELSE "major"

\* determineComplexity
determineComplexity(totalChanges, filesChanged) ==
    LET adjustedChanges == totalChanges + (filesChanged - 1) * 10
    IN  IF adjustedChanges <= 5 THEN "trivial"
        ELSE IF adjustedChanges <= 20 THEN "simple"
        ELSE IF adjustedChanges <= 50 THEN "moderate"
        ELSE IF adjustedChanges <= 150 THEN "complex"
        ELSE "major"

\* analyzeDiff that leaves the removed lines out of totalChanges
analyzeDiffAddedOnly(lines) ==
    IF lines = <<>>
    THEN [linesAdded |-> 0, linesRemoved |-> 0, totalChanges |-> 0,
          filesChanged |-> 1, complexity |-> "trivial"]
    ELSE LET linesAdded == Cardinality({i \in 1..Len(lines) :
                               StartsWith(lines[i], <<"+">>)
                               /\ ~StartsWith(lines[i], <<"+", "+", "+">>)})
             linesRemoved == Cardinality({i \in 1..Len(lines) :
                               ~(StartsWith(lines[i], <<"+">>)
                                   /\ ~StartsWith(lines[i], <<"+", "+", "+">>))
                               /\ StartsWith(lines[i], <<"-">>)
                               /\ ~StartsWith(lines[i], <<"-", "-", "-">>)})
             totalChanges == linesAdded
             fileMatches == Cardinality({i \in 1..Len(lines) :
                               StartsWith(lines[i], <<"d", "i", "f", "f", " ",
                                                      "-", "-", "g", "i", "t">>)})
             filesChanged == IF fileMatches > 0 THEN fileMatches ELSE 1
         IN  [linesAdded |-> linesAdded, linesRemoved |-> linesRemoved,
              totalChanges |-> totalChanges, filesChanged |-> filesChanged,
              complexity |-> determineComplexity(totalChanges, filesChanged)]

\* analyzeDiff, the counts and the complexity; the diff text is held as the
\* sequence of its lines (diffText.split('\n')), the empty text as <<>>
analyzeDiff(lines) ==
    IF lines = <<>>
    THEN [linesAdded |-> 0, linesRemoved |-> 0, totalChanges |-> 0,
          filesChanged |-> 1, complexity |-> "trivial"]
    ELSE LET linesAdded == Cardinality({i \in 1..Len(lines) :
                               StartsWith(lines[i], <<"+">>)
                               /\ ~StartsWith(lines[i], <<"+", "+", "+">>)})
             linesRemoved == Cardinality({i \in 1..Len(lines) :
                               ~(StartsWith(lines[i], <<"+">>)
                                   /\ ~StartsWith(lines[i], <<"+", "+", "+">>))
                               /\ StartsWith(lines[i], <<"-">>)
                               /\ ~StartsWith(lines[i], <<"-", "-", "-">>)})
             totalChanges == linesAdded + linesRemoved
             fileMatches == Cardinality({i \in 1..Len(lines) :
                               StartsWith(lines[i], <<"d", "i", "f", "f", " ",
                                                      "-", "-", "g", "i", "t">>)})
             filesChanged == IF fileMatches > 0 THEN fileMatches ELSE 1
         IN  [linesAdded |-> linesAdded, linesRemoved |-> linesRemoved,
              totalChanges |-> totalChanges, filesChanged |-> filesChanged,
              complexity |-> determineComplexity(totalChanges, filesChanged)]


\* the call of analyzeDiff on the diff at hand is made
Analyze ==
    LET \* the diff with d.files file sections, d.added added and d.removed removed
        \* lines and d.context lines of context
        DiffText(d) ==
            LET HeaderNew == <<"+", "+", "+", " ", "b">>
            IN
            LET HeaderOld == <<"-", "-", "-", " ", "a">>
            IN
            LET HeaderGit == <<"d", "i", "f", "f", " ", "-", "-", "g", "i", "t", " ", "a", " ", "b">>
            IN
            LET section == <<HeaderGit, HeaderOld, HeaderNew>>
                headers == [i \in 1..(3 * d.files) |-> section[((i - 1) % 3) + 1]]
            IN  headers \o Rep(<<" ", "x">>, d.context) \o Rep(<<"+", "x">>, d.added)
                \o Rep(<<"-", "x">>, d.removed)
    IN
    /\ call.fn = "analyzeDiff" /\ ~call.done
    /\ call' = [call EXCEPT !.out = analyzeDiff(DiffText(call.arg)), !.done = TRUE]
    /\ UNCHANGED others


InitDiff ==
    /\ InitState /\ isRepo /\ branch = "feat"
    /\ call \in {Pending("analyzeDiff",
                          [files |-> n, context |-> c, added |-> 0, removed |-> 0]) :
                     n \in 0..MaxFiles, c \in 0..1}
    /\ call.arg.files = 0 \/ call.arg.context = 1

\* one more added or removed line in the diff; the analysis of the diff
\* before stays at hand
Grow(kind) ==
    /\ call.fn = "analyzeDiff" /\ call.done
    /\ call.arg.added + call.arg.removed < MaxDiffLines
    /\ call' = [call EXCEPT !.done = FALSE,
                            !.arg = IF kind = "+"
                                    THEN [call.arg EXCEPT !.added = @ + 1]
                                    ELSE [call.arg EXCEPT !.removed = @ + 1]]
    /\ UNCHANGED others

NextDiff == Analyze \/ \E kind \in {"+", "-"} : Grow(kind)

SpecDiff == InitDiff /\ [][NextDiff]_vars

\* ------------------------------- change analyzer: patterns, type, scope
\* the characters of \w and of \d
WordChar ==
    {"a", "b", "c", "d", "e", "f", "g", "h", "i", "j", "k", "l", "m", "n",
     "o", "p", "q", "r", "s", "t", "u", "v", "w", "x", "y", "z", "_",
     "0", "1", "2", "3", "4", "5", "6", "7", "8", "9"}

\* s holds sub from position i on
HasAt(s, i, sub) ==
    i >= 1 /\ i + Len(sub) - 1 <= Len(s) /\ SubSeq(s, i, i + Len(sub) - 1) = sub


\* one of the alternatives subs is found in s
IncludesAny(s, subs) == \E sub \in subs : Includes(s, sub)

\* the positions where ^ matches under the m flag
LineStarts(s) == {1} \cup {i + 1 : i \in {j \in 1..Len(s) : s[j] = NL}}

\* the position after the whitespace that starts at position i (\s*)
SkipWhite(s, i) == i + RunFrom(s, White, i)

\* class\s+\w+ matches at position j
ClassAt(s, j) ==
    /\ HasAt(s, j, <<"c", "l", "a", "s", "s">>)
    /\ RunFrom(s, White, j + 5) >= 1
    /\ RunFrom(s, WordChar, SkipWhite(s, j + 5)) >= 1

\* const\s+\w+\s*=\s*(?:async\s*)?\( matches at position j
ConstCallAt(s, j) ==
    /\ HasAt(s, j, <<"c", "o", "n", "s", "t">>)
    /\ RunFrom(s, White, j + 5) >= 1
    /\ LET k == SkipWhite(s, j + 5)
           b == RunFrom(s, WordChar, k)
           m == SkipWhite(s, k + b)
           n == SkipWhite(s, m + 1)
       IN  /\ b >= 1
           /\ HasAt(s, m, <<"=">>)
           /\ \/ HasAt(s, n, <<"(">>)
              \/ HasAt(s, n, <<"a", "s", "y", "n", "c">>) /\ HasAt(s, SkipWhite(s, n + 5), <<"(">>)


\* analyzeContentPatterns: the flags the change type, the suggested length
\* and the dependency scenario read (hasImportChanges, hasApiChanges,
\* hasConfigChanges and keywords are read by nothing modelled here)
analyzeContentPatterns(diffText, fileName) ==
    LET BreakingPattern(s) ==
            LET \* /breaking|deprecated|removed|deleted|migration/i, /^-\s*export\s+/m
                BreakingWords ==
                    {<<"b", "r", "e", "a", "k", "i", "n", "g">>, <<"d", "e", "p", "r", "e", "c", "a", "t", "e",
                          "d">>, <<"r", "e", "m", "o", "v", "e", "d">>, <<"d", "e", "l", "e", "t", "e", "d">>,
                                <<"m", "i", "g", "r", "a", "t", "i", "o", "n">>}
            IN
            \/ IncludesAny(Lower(s), BreakingWords)
            \/ \E i \in LineStarts(s) :
                  /\ HasAt(s, i, <<"-">>)
                  /\ HasAt(s, SkipWhite(s, i + 1), <<"e", "x", "p", "o", "r", "t">>)
                  /\ RunFrom(s, White, SkipWhite(s, i + 1) + 6) >= 1
    IN
    LET \* /^\+\s*class\s+\w+/m
        NewClassPattern(s) ==
            \E i \in LineStarts(s) :
                HasAt(s, i, <<"+">>) /\ ClassAt(s, SkipWhite(s, i + 1))
    IN
    LET \* /^\+\s*(function|const\s+\w+\s*=\s*(?:async\s*)?\(|class\s+\w+)/m
        NewFunctionPattern(s) ==
            \E i \in LineStarts(s) :
                /\ HasAt(s, i, <<"+">>)
                /\ LET j == SkipWhite(s, i + 1)
                   IN  HasAt(s, j, <<"f", "u", "n", "c", "t", "i", "o", "n">>) \/ ConstCallAt(s,
                         j) \/ ClassAt(s, j)
    IN
    LET lowerFile == Lower(fileName)
    IN  [hasNewFunction |-> NewFunctionPattern(diffText),
         hasNewClass |-> NewClassPattern(diffText),
         hasDependencyChanges |->
             IncludesAny(lowerFile, {<<"p", "a", "c", "k", "a", "g", "e", ".", "j", "s", "o",
                   "n">>, <<"r", "e", "q", "u", "i", "r", "e", "m", "e", "n", "t", "s", ".", "t",
                         "x", "t">>,
                                     <<"c", "a", "r", "g", "o", ".", "t", "o", "m", "l">>, <<"g",
                                           "o", ".", "m", "o", "d">>}),
         hasTestChanges |->
             IncludesAny(lowerFile, {<<"t", "e", "s", "t">>, <<"s", "p", "e", "c">>, <<"_", "_",
                   "t", "e", "s", "t", "s", "_", "_">>}),
         isBreakingChange |-> BreakingPattern(diffText)]

\* detectChangeType
detectChangeType(diffText, fileName, analysis) ==
    LET IssueRefPattern(s) ==
            LET Digit == {"0", "1", "2", "3", "4", "5", "6", "7", "8", "9"}
            IN
                              \E i \in 1..Len(s) : s[i] = "#" /\ RunFrom(s, Digit, i + 1) >= 1
    IN
    LET \* /^\+\s*$|^-\s*$/m: an added or removed line of whitespace only
        BlankChangePattern(s) ==
            \E i \in LineStarts(s) :
                /\ HasAt(s, i, <<"+">>) \/ HasAt(s, i, <<"-">>)
                /\ LET e == i + 1 + RunFrom(s, White \ {NL}, i + 1)
                   IN  e = Len(s) + 1 \/ HasAt(s, e, <<NL>>)
    IN
    LET \* String.prototype.endsWith
        EndsWith(s, suffix) == HasAt(s, Len(s) - Len(suffix) + 1, suffix)
    IN
    LET \* /security|vuln|cve|auth|permission|sanitize/i
        SecurityWords ==
            {<<"s", "e", "c", "u", "r", "i", "t", "y">>, <<"v", "u", "l", "n">>, <<"c", "v", "e">>, <<"a",
                  "u", "t", "h">>, <<"p", "e", "r", "m", "i", "s", "s", "i", "o", "n">>, <<"s", "a", "n",
                        "i", "t", "i", "z", "e">>}
    IN
    LET \* /perf|performance|optimize|faster|speed|cache/i
        PerfWords ==
            {<<"p", "e", "r", "f">>, <<"p", "e", "r", "f", "o", "r", "m", "a", "n", "c", "e">>, <<"o", "p",
                  "t", "i", "m", "i", "z", "e">>, <<"f", "a", "s", "t", "e", "r">>, <<"s", "p", "e", "e",
                        "d">>, <<"c", "a", "c", "h", "e">>}
    IN
    LET \* /fix|bug|error|issue|crash|problem/i, /fix|bug|issue|#\d+/i
        FixWords == {<<"f", "i", "x">>, <<"b", "u", "g">>, <<"e", "r", "r", "o", "r">>, <<"i", "s", "s",
              "u", "e">>, <<"c", "r", "a", "s", "h">>, <<"p", "r", "o", "b", "l", "e", "m">>}
    IN
    LET lowerFile == Lower(fileName)
        lowerDiff == Lower(diffText)
    IN  IF analysis.hasTestChanges THEN "test"
        ELSE IF \/ EndsWith(lowerFile, <<".", "m", "d">>)
                \/ IncludesAny(lowerFile, {<<"r", "e", "a", "d", "m", "e">>, <<"d", "o", "c", "s",
                      "/">>, <<"d", "o", "c", "u", "m", "e", "n", "t", "a", "t", "i", "o", "n">>})
        THEN "docs"
        ELSE IF IncludesAny(lowerFile, {<<".", "g", "i", "t", "h", "u", "b", "/">>, <<"j", "e",
              "n", "k", "i", "n", "s">>, <<"g", "i", "t", "l", "a", "b", "-", "c", "i">>,
                                        <<"c", "i", "r", "c", "l", "e", "c", "i">>})
        THEN "ci"
        ELSE IF IncludesAny(lowerFile, {<<"w", "e", "b", "p", "a", "c", "k">>, <<"v", "i", "t",
              "e">>, <<"r", "o", "l", "l", "u", "p">>,
                                        <<"d", "o", "c", "k", "e", "r", "f", "i", "l", "e">>,
                                              <<"m", "a", "k", "e", "f", "i", "l", "e">>})
        THEN "build"
        ELSE IF /\ analysis.totalChanges < 10
                /\ ~analysis.hasNewFunction
                /\ BlankChangePattern(diffText)
        THEN "style"
        ELSE IF \/ IncludesAny(lowerDiff, FixWords)
                \/ IncludesAny(Lower(diffText), {<<"f", "i", "x">>, <<"b", "u", "g">>, <<"i", "s",
                      "s", "u", "e">>})
                \/ IssueRefPattern(diffText)
        THEN "fix"
        ELSE IF IncludesAny(lowerDiff, PerfWords) THEN "perf"
        ELSE IF IncludesAny(lowerDiff, SecurityWords) THEN "security"
        ELSE IF /\ 2 * analysis.linesRemoved > analysis.linesAdded
                /\ ~analysis.hasNewFunction
                /\ ~analysis.hasNewClass
        THEN "refactor"
        ELSE IF \/ analysis.hasNewFunction
                \/ analysis.hasNewClass
                \/ analysis.linesAdded > 20
        THEN "feat"
        ELSE IF analysis.totalChanges > 15 THEN "feat" ELSE "chore"

\* the value null of analysis.scope
NoScope == <<>>

\* a path separator of the scope patterns, [/\\], stands at position j
SepAt(s, j) == HasAt(s, j, <<"/">>) \/ HasAt(s, j, <<BS>>)

\* the position after name and, where plural, an "s" if one follows
AfterName(s, i, name, plural) ==
    IF plural /\ HasAt(s, i + Len(name), <<"s">>) THEN i + Len(name) + 1
    ELSE i + Len(name)

\* the positions where name, "s?" where plural, and [/\\] match in s
DirHits(s, name, plural) ==
    {i \in 1..Len(s) : HasAt(s, i, name) /\ SepAt(s, AfterName(s, i, name, plural))}


\* extractScope: the scope patterns in their order, then the extension
extractScope(fileName) ==
    LET \* the text after the last "." of s (s.split('.').pop())
        Extension(s) ==
            LET dots == {i \in 1..Len(s) : s[i] = "."}
            IN  IF dots = {} THEN s
                ELSE SubSeq(s, (CHOOSE d \in dots : \A k \in dots : d >= k) + 1, Len(s))
    IN
    LET \* the capture group of the first match of name, "s?" where plural, [/\\]
        \* and (\w+) in s, or NoScope without a match
        DirWord(s, name, plural) ==
            LET hits == {i \in DirHits(s, name, plural) :
                            RunFrom(s, WordChar, AfterName(s, i, name, plural) + 1) >= 1}
            IN  IF hits = {} THEN NoScope
                ELSE LET i == CHOOSE h \in hits : \A k \in hits : h <= k
                         w == AfterName(s, i, name, plural) + 1
                     IN  SubSeq(s, w, w + RunFrom(s, WordChar, w) - 1)
    IN
    LET lowerPath == Lower(fileName)
        ext == Lower(Extension(fileName))
        grouped == <<[name |-> <<"c", "o", "m", "p", "o", "n", "e", "n", "t">>, plural |-> TRUE],
                     [name |-> <<"m", "o", "d", "u", "l", "e">>, plural |-> TRUE],
                     [name |-> <<"s", "e", "r", "v", "i", "c", "e">>, plural |-> TRUE],
                     [name |-> <<"a", "p", "i">>, plural |-> FALSE],
                     [name |-> <<"p", "a", "g", "e">>, plural |-> TRUE],
                     [name |-> <<"v", "i", "e", "w">>, plural |-> TRUE]>>
        word(k) == DirWord(lowerPath, grouped[k].name, grouped[k].plural)
        matching == {k \in 1..Len(grouped) : word(k) # NoScope}
    IN  IF fileName = <<>> THEN NoScope
        ELSE IF matching # {}
        THEN word(CHOOSE k \in matching : \A j \in matching : k <= j)
        ELSE IF DirHits(lowerPath, <<"u", "t", "i", "l">>, TRUE) # {} THEN <<"u", "t", "i", "l",
              "s">>
        ELSE IF DirHits(lowerPath, <<"h", "e", "l", "p", "e", "r">>, TRUE) # {} THEN <<"h", "e",
              "l", "p", "e", "r", "s">>
        ELSE IF DirHits(lowerPath, <<"h", "o", "o", "k">>, TRUE) # {} THEN <<"h", "o", "o", "k",
              "s">>
        ELSE IF DirHits(lowerPath, <<"s", "t", "o", "r", "e">>, FALSE) # {} THEN <<"s", "t", "o",
              "r", "e">>
        ELSE IF Includes(lowerPath, <<"a", "u", "t", "h">>) THEN <<"a", "u", "t", "h">>
        ELSE IF Includes(lowerPath, <<"c", "o", "n", "f", "i", "g">>) THEN <<"c", "o", "n", "f",
              "i", "g">>
        ELSE IF IncludesAny(lowerPath, {<<"t", "e", "s", "t">>, <<"s", "p", "e",
              "c">>}) THEN <<"t", "e", "s", "t">>
        ELSE IF DirHits(lowerPath, <<"d", "o", "c">>, TRUE) # {} THEN <<"d", "o", "c", "s">>
        ELSE IF ext \in {<<"c", "s", "s">>, <<"s", "c", "s", "s">>, <<"s", "a", "s",
              "s">>} THEN <<"s", "t", "y", "l", "e", "s">>
        ELSE IF ext = <<"m", "d">> THEN <<"d", "o", "c", "s">>
        ELSE NoScope

\* determineSuggestedLength without the check for a breaking change
determineSuggestedLengthNoBreaking(analysis) ==
    IF analysis.complexity = "trivial" THEN "short"
    ELSE IF analysis.complexity = "simple"
    THEN (IF analysis.hasNewFunction THEN "medium" ELSE "short")
    ELSE IF analysis.complexity = "moderate" THEN "medium"
    ELSE "detailed"

\* determineSuggestedLength
determineSuggestedLength(analysis) ==
    IF analysis.isBreakingChange THEN "detailed"
    ELSE IF analysis.complexity = "trivial" THEN "short"
    ELSE IF analysis.complexity = "simple"
    THEN (IF analysis.hasNewFunction THEN "medium" ELSE "short")
    ELSE IF analysis.complexity = "moderate" THEN "medium"
    ELSE "detailed"

\* the fields of a record r, then those of a record q
Merge(r, q) ==
    [f \in DOMAIN r \cup DOMAIN q |-> IF f \in DOMAIN q THEN q[f] ELSE r[f]]

\* what analyzeDiff returns for an empty diffText: the initial analysis
EmptyAnalysis ==
    Merge(analyzeDiff(<<>>),
          [changeType |-> "chore", scope |-> NoScope, isBreakingChange |-> FALSE,
           hasNewFunction |-> FALSE, hasNewClass |-> FALSE,
           hasDependencyChanges |-> FALSE, hasTestChanges |-> FALSE,
           suggestedLength |-> "short"])

\* analyzeDiff(diffText, fileName) with every field the properties read:
\* the counts and the complexity, then the patterns, the change type, the
\* scope and the suggested length
analyzeDiffOf(diffText, fileName) ==
    IF diffText = <<>> THEN EmptyAnalysis
    ELSE LET counted == Merge(analyzeDiff(Split(diffText)),
                              analyzeContentPatterns(diffText, fileName))
             typed == Merge(counted,
                            [changeType |-> detectChangeType(diffText, fileName, counted),
                             scope |-> extractScope(fileName)])
         IN  Merge(typed, [suggestedLength |-> determineSuggestedLength(typed)])

\* the files analyzed
FileLogin == <<"s", "r", "c", "/", "a", "u", "t", "h", "/", "l", "o", "g", "i", "n", ".", "t", "s">>
FilePackage == <<"p", "a", "c", "k", "a", "g", "e", ".", "j", "s", "o", "n">>

\* lines a diff is made of: added, removed and context lines
PlainAdded == <<"+", "o", "k">>
FunctionAdded == <<"+", "f", "u", "n", "c", "t", "i", "o", "n", " ", "f">>
AddedLines ==
    LET FixAdded == <<"+", "f", "i", "x", " ", "i", "t">>
    IN
    LET BlankAdded == <<"+">>
    IN
              {PlainAdded, BlankAdded, FunctionAdded, FixAdded}
RemovedLines ==
    LET ExportRemoved == <<"-", "e", "x", "p", "o", "r", "t", " ", "y">>
    IN
    LET PlainRemoved == <<"-", "o", "l", "d">>
    IN
                {PlainRemoved, ExportRemoved}


\* the lines as git prints them, each one ended by a line break
RECURSIVE Printed(_)
Printed(lines) ==
    IF lines = <<>> THEN <<>>
    ELSE Head(lines) \o <<NL>> \o Printed(Tail(lines))


\* the call of analyzeDiff on the diff and the file at hand is made
AnalyzeFile ==
    LET \* the diff text of d: the header where d.header, d.bulk plain added lines,
        \* then d.lines; the text is empty when there is none of them
        AnalyzedText(d) ==
            LET \* n plain added lines as git prints them
                BulkText(n) ==
                    LET unit == PlainAdded \o <<NL>>
                    IN  [i \in 1..(n * Len(unit)) |-> unit[((i - 1) % Len(unit)) + 1]]
            IN
            LET \* the header git prints for the section of file
                DiffHeader(file) ==
                    <<<<"d", "i", "f", "f", " ", "-", "-", "g", "i", "t", " ", "a", "/">> \o file \o <<" ", "b",
                          "/">> \o file,
                      <<"-", "-", "-", " ", "a", "/">> \o file, <<"+", "+", "+", " ", "b", "/">> \o file>>
            IN
            (IF d.header THEN Printed(DiffHeader(d.file)) ELSE <<>>)
            \o BulkText(d.bulk) \o Printed(d.lines)
    IN
    /\ call.fn = "analyzeDiffOf" /\ ~call.done
    /\ call' = [call EXCEPT !.out = analyzeDiffOf(AnalyzedText(call.arg), call.arg.file),
                            !.done = TRUE]
    /\ UNCHANGED others

InitAnalysis ==
    LET \* the diffs analyzed: for src/auth/login.ts every sequence of up to
        \* MaxChanged lines of the pool, with and without the header; for every file
        \* the bulks with up to one more line
        AnalysisInputs ==
            LET \* the sequences over S of length up to n
                SeqsUpTo(S, n) == UNION {[1..k -> S] : k \in 0..n}
            IN
            LET \* numbers of plain added lines that put a diff in each tier
                BulkSizes == {0, 6, 21, 51, 151}
            IN
            LET LinePool ==
                    LET FunctionContext == <<" ", "f", "u", "n", "c", "t", "i", "o", "n", " ", "g">>
                    IN
                            AddedLines \cup RemovedLines \cup {FunctionContext}
            IN
            LET AnalyzedFiles ==
                    {FileLogin, FilePackage, <<"s", "r", "c", "/", "c", "o", "m", "p", "o", "n", "e", "n", "t",
                          "s", "/", "b", "u", "t", "t", "o", "n", ".", "j", "s">>, <<"d", "o", "c", "s", "/", "g",
                                "u", "i", "d", "e", ".", "m", "d">>,
                     <<"s", "r", "c", "/", "s", "t", "o", "r", "e", ".", "c", "s", "s">>}
            IN
            {d \in [file : AnalyzedFiles, header : BOOLEAN, bulk : BulkSizes,
                    lines : SeqsUpTo(LinePool, MaxChanged)] :
                (d.bulk > 0 \/ d.file # FileLogin) => Len(d.lines) <= 1}
    IN
    /\ InitState /\ isRepo /\ branch = "feat"
    /\ call \in {Pending("analyzeDiffOf", d) : d \in AnalysisInputs}

SpecAnalysis == InitAnalysis /\ [][AnalyzeFile]_vars

\* ------------------------------------------ the log of the generation step
\* one line of the output channel: its fixed text and the values put into it
Line(text, args) == [text |-> text, args |-> args]

\* handleSave, the "AI config" line: hasKey=${!!apiKey}
AiConfigLine(aiEnabled, apiKey) ==
    Line("AI config", <<aiEnabled, apiKey # <<>>>>)

\* onSave of the earlier revision, the "AI config" line: hasKey=${!!deepseekKey},
\* keyLen=${deepseekKey?.length || 0}
AiConfigLineEarlier(aiEnabled, deepseekKey) ==
    Line("AI config", <<aiEnabled, deepseekKey # <<>>, Len(deepseekKey)>>)

\* handleSave, "GENERATE COMMIT MESSAGE", with a credential at hand or
\* generation off: the lines written to the output channel
GenerationLog(aiEnabled, apiKey, resp, fallback) ==
    <<AiConfigLine(aiEnabled, apiKey)>>
    \o (IF aiEnabled /\ apiKey # <<>>
        THEN LET m == MessageAfterGen(fallback, generateCommitMessage(resp), TRUE)
             IN  <<Line("generating AI message", <<>>),
                   IF m.log = "using" THEN Line("using", <<m.message>>)
                   ELSE Line("AI failed", <<>>)>>
        ELSE <<>>)

\* onSave of the earlier revision, "AI COMMIT MESSAGE GENERATION": the lines
\* written to the output channel
GenerationLogEarlier(aiEnabled, deepseekKey, resp, fallback) ==
    <<AiConfigLineEarlier(aiEnabled, deepseekKey)>>
    \o (IF aiEnabled /\ deepseekKey # <<>>
        THEN <<Line("generating AI message", <<>>)>>
             \o (IF resp.net # "ok" \/ resp.status < 200 \/ resp.status >= 300
                    \/ resp.body.kind = "malformed"
                 THEN <<Line("AI failed", <<>>)>>
                 ELSE LET raw == IF resp.body.kind = "content"
                                 THEN Trim(resp.body.content) ELSE <<>>
                          processed == Truncate(CleanLine(Split(raw)[1]))
                          rawText == Trim(processed)
                      IN  <<Line("API response", <<resp.body>>),
                            IF resp.body.kind \in {"null", "error"} \/ raw = <<>>
                            THEN Line("AI failed", <<>>)
                            ELSE Line("using", <<IF rawText # <<>> THEN rawText
                                                 ELSE fallback>>)>>)
        ELSE <<>>)

\* the credentials of two runs: a key, one of the same length and a longer one
ApiKeys == {<<"s", "k">>, <<"k", "s">>, <<"s", "k", "2">>}

\* the generation step of a save is run for the next of call.arg.keys, on
\* the revision, settings and backend answer of call.arg
GenerationRun ==
    /\ call.fn = "generationLog" /\ Len(call.out) < Len(call.arg.keys)
    /\ LET a == call.arg
           key == a.keys[Len(call.out) + 1]
           fallback == getSmartMessageWithFile(a.tpl, FileName("a.txt"), TRUE)
       IN  call' = [call EXCEPT !.out = Append(@,
                        IF a.revision = "earlier"
                        THEN GenerationLogEarlier(a.ai, key, a.resp,
                                                  <<"S", "a", "v", "e", "d", ":",
                                                        " ">> \o FileName("a.txt"))
                        ELSE GenerationLog(a.ai, key, a.resp, fallback))]
    /\ UNCHANGED others

InitKey ==
    /\ InitState /\ isRepo /\ branch = "feat"
    /\ call \in {Pending("generationLog",
                          [revision |-> r, ai |-> ai, keys |-> <<k1, k2>>,
                           resp |-> resp, tpl |-> tpl]) :
                     r \in {"modular", "earlier"}, ai \in BOOLEAN, k1 \in ApiKeys,
                     k2 \in ApiKeys, resp \in GenResponses, tpl \in OneTemplate}

SpecKey == InitKey /\ [][GenerationRun]_vars

\* ------------------------------------------------------------ properties
Protected == Range(DefaultProtectedBranches)


\* C1: the save handler issues or renders a commit command for a save only if
\* at that save a persisted token exists, is unexpired, names the saved path
\* and carries the nonce registered in memory for that path; handlers are
\* started by saves only and a command is otherwise built only by a resumed
\* handler; a save that finds no token changes no state.
C1_CommitOnlyWithValidToken ==
    [][ LET \* the step made the save handler go on to a commit command: one was
            \* built (sent or rendered) or a handler is left suspended on its
            \* way to one
            Proceeds ==
                \/ ev'.cmd # NoCmd
                \/ Len(handlers') > Len(handlers)
                \/ Len(termQ') > Len(termQ)
            \* the persisted token would let a save of p through
            TokenValidFor(p) ==
                /\ token # NoToken
                /\ token.expires >= now
                /\ token.path = p
                /\ token.nonce # ""
                /\ token.nonce = triggerNonces[p]
            \* what the extension and the repository hold (everything but the
            \* observers)
            progVars == <<token, triggerNonces, runs, handlers, termQ, branch,
                          dirty, staged, commits, head, lastCommitInfo,
                          totalCommits, isRepo, undos>>
        IN  /\ (ev'.op = "save" /\ Proceeds => TokenValidFor(ev'.path))
            /\ (Len(handlers') > Len(handlers) => ev'.op = "save")
            /\ (ev'.cmd # NoCmd /\ ev'.op # "save"
                   => ev'.op = "resume" /\ Len(handlers') < Len(handlers))
            /\ (ev'.op = "save" /\ token = NoToken
                   => ev'.guard = "NoToken" /\ UNCHANGED progVars) ]_vars

\* a save was authorized and its command sent to the terminal
C1_Witness == ev.op = "save" /\ ev.guard = "Authorized" /\ ev.sent

\* C2: a save of a path other than the token's never triggers a commit: the
\* handler returns at the expiry or the path check, before the nonce check,
\* the policy chain, generation and any git command.
C2_PathMismatchNeverCommits ==
    [][ (ev'.op = "save" /\ token # NoToken /\ token.path # ev'.path)
          => /\ ev'.guard \in {"TokenExpired", "PathMismatch"}
             /\ Range(ev'.trace) \subseteq {"token", "expiry", "path"}
             /\ ev'.cmd = NoCmd
             /\ UNCHANGED <<handlers, termQ, staged, commits, lastCommitInfo,
                            totalCommits, triggerNonces>> ]_vars

\* a save was turned away because the token names another path
C2_Witness == ev.op = "save" /\ ev.guard = "PathMismatch" /\ token.path # ev.path

\* C3: after an authorized save of a path, a further save of that path with
\* no save-and-run in between finds no token (NoToken), so one token
\* authorizes one save.
C3_TokenSingleUse ==
    [][ (ev'.op = "save" /\ spent # "" /\ ev'.path = spent)
          => ev'.guard = "NoToken" ]_vars

\* the second of two saves of the token's path was turned away for NoToken
C3_Witness == ev.op = "save" /\ ev.guard = "NoToken" /\ spent = ev.path

\* C4: a save (of any path) that finds a token whose expiry time is in the
\* past is ignored and clears the persisted token.
C4_ExpiredTokenCleared ==
    [][ (ev'.op = "save" /\ token # NoToken /\ token.expires < now)
          => /\ ev'.guard = "TokenExpired"
             /\ token' = NoToken
             /\ ev'.cmd = NoCmd
             /\ UNCHANGED <<handlers, termQ, staged, commits, lastCommitInfo,
                            totalCommits, triggerNonces>> ]_vars

\* a save found an expired token
C4_Witness == ev.op = "save" /\ ev.guard = "TokenExpired" /\ token = NoToken

\* C5: a save of p that follows a completed save-and-run on p before the
\* expiry, with no other save-and-run in between, is Authorized and goes on
\* to the policy chain.
C5_SaveAndRunAuthorizes ==
    [][ (ev'.op = "save" /\ armed # NoRun /\ ev'.path = armed.path
            /\ now <= armed.expires)
          => /\ ev'.guard = "Authorized"
             /\ "glob" \in Range(ev'.trace) ]_vars

C7_ClearedBeforeSuspension ==
    [][ /\ (ev'.op = "save" /\ ev'.guard = "Authorized"
               => token' = NoToken /\ triggerNonces'[ev'.path] = Absent)
        /\ (ev'.op = "save" /\ spent = ev'.path
              /\ (\E i \in 1..Len(handlers) : handlers[i].path = ev'.path)
               => ev'.guard # "Authorized" /\ handlers' = handlers) ]_vars

\* a second save of the path was turned away while the first handler is suspended
C7_Witness ==
    /\ ev.op = "save" /\ ev.guard # "Authorized" /\ spent = ev.path
    /\ \E i \in 1..Len(handlers) : handlers[i].path = ev.path

\* C8: no commit made by a command of the save handler holds a file whose
\* path matches a sensitive glob.
C8_NoSensitiveFileCommitted ==
    \A i \in 1..Len(commits) :
        commits[i].by = "handleSave"
          => \A f \in commits[i].files : ~MatchesAny(f, DefaultSensitiveGlobs)

\* C9: the command the save handler builds holds a push step exactly when
\* autoPush is on, dry-run is off and the branch read at the save is not
\* protected; on a protected branch with autoPush on the downgrade is logged
\* and the handler still goes on to its commit command.
C9_ProtectedBranchDowngrade ==
    /\ (ev.op \in {"save", "resume"} /\ ev.cmd # NoCmd
          => ev.cmd.push = (ev.autoPush /\ ~ev.dryRun /\ ev.branch \notin Protected))
    /\ (ev.op = "save" /\ ev.outcome = "pass" /\ ev.autoPush /\ ev.branch \in Protected
          => /\ "protected branch - no push" \in Range(ev.log)
             /\ (ev.cmd # NoCmd \/ handlers # <<>>))

\* on main with autoPush on the commit command was sent without a push step
C9_Witness ==
    /\ ev.op \in {"save", "resume"} /\ ev.sent /\ ev.autoPush
    /\ ev.branch = "main" /\ ~ev.cmd.push

\* C10: no command with a push step is sent to the terminal while the branch
\* checked out is a protected one.
C10_NoPushOnProtectedBranch ==
    (ev.sent /\ ev.cmd.push) => branch \notin Protected

\* C11: with dryRun on, handling a save changes nothing in the repository
\* and sends nothing to the terminal: the index, the working tree, the
\* commits and HEAD stay as they are, whatever the generation settings.
C11_DryRunChangesNothing ==
    [][ (ev'.op \in {"save", "resume"} /\ ev'.dryRun)
          => UNCHANGED <<staged, dirty, commits, head, termQ>> ]_vars


\* C12: when generation yields no message, or the credential prompt is
\* dismissed, the handler goes on: it builds the commit command with the
\* fallback message, which is not empty, and sends it unless dry-run is on.
C12_GenerationFailureFallsBack ==
    [][ LET \* the backend's answer holds no message: a socket error, the
            \* timeout, a status outside 200..299, a body that is not JSON, is
            \* null, has an error field or no choices, or a blank content
            NoMessage(resp) ==
                \/ resp.net \in {"error", "timeout"}
                \/ resp.status < 200 \/ resp.status > 299
                \/ resp.body.kind \in {"malformed", "null", "error", "empty"}
                \/ \A i \in 1..Len(resp.body.content) :
                      resp.body.content[i] \in White
        IN  (ev'.op = "resume"
               /\ (ev'.declined \/ (ev'.resp # NoResp /\ NoMessage(ev'.resp))))
              => /\ ev'.cmd # NoCmd
                 /\ ev'.cmd.message = ev'.fallback
                 /\ ev'.cmd.message # <<>>
                 /\ ev'.sent = ~ev'.dryRun
                 /\ Len(handlers') < Len(handlers) ]_vars

\* after HTTP 500 the command was sent with the fallback message
C12_Witness ==
    /\ ev.op = "resume" /\ ev.resp = Http500 /\ ev.sent
    /\ ev.cmd.message = ev.fallback /\ ev.fallback # <<>>

\* C13: when the shell runs a commit command line with nothing to stage, the
\* failed commit is followed by the echo, so the list goes on as after a
\* success: no commit is made, nothing else changes, a push step still runs,
\* and the exit status is 0 unless that push fails.
C13_EmptyCommitIsNoOp ==
    [][ (ev'.op = "term" /\ termQ # <<>> /\ Head(termQ).reset = ""
           /\ AddAll(staged, dirty) = {})
          => /\ "commit" \in Range(ev'.ran) /\ "echo" \in Range(ev'.ran)
             /\ ("push" \in Range(ev'.ran)) = Head(termQ).cmd.push
             /\ (ev'.status # 0 => ev'.ran[Len(ev'.ran)] = "push")
             /\ UNCHANGED <<commits, head, dirty, staged>> ]_vars

\* the save handler's command ran on a clean working tree and ended with status 0
C13_Witness ==
    /\ ev.op = "term" /\ ev.by = "handleSave" /\ ev.made = 0 /\ ev.status = 0
    /\ ev.ran = <<"cd", "add", "commit", "echo">>

\* C14: the first line of every message the composer hands to the executor
\* is at most 72 characters long.
C14_SubjectAtMost72 ==
    LET \* the first line of a message
        Subject(m) == Split(m)[1]
    IN
    (call.fn = "compose" /\ call.done) => Len(Subject(call.out)) <= SubjectLimit

\* C15: in the message as embedded in the command, every double-quote and
\* every dollar-sign is preceded by an odd number of backslashes.
C15_NoUnescapedQuoteOrDollar ==
    (call.fn = "escape" /\ call.done)
      => \A i \in 1..Len(call.out) :
             call.out[i] \in {DQ, "$"}
               => RunBack(call.out, {BS}, i - 1) % 2 = 1

\* C16: with emoji off, when the backend returns a message (one that is not
\* empty once its leading symbols are removed), the message of the command
\* is that message with its leading emoji and symbols removed.
C16_GeneratedKeptWithoutEmoji ==
    (ev.op = "resume" /\ ~ev.useEmoji /\ ev.resp # NoResp
       /\ ~generateCommitMessage(ev.resp).threw
       /\ stripEmoji(generateCommitMessage(ev.resp).msg) # <<>>)
      => ev.cmd.message = stripEmoji(generateCommitMessage(ev.resp).msg)

\* C17: an undo requested while no commit is recorded, or while HEAD is not
\* the recorded hash, is refused with a warning: no reset is sent, the
\* repository and the recorded commit stay as they are and nothing is asked.
C17_UndoRefusedWhenHeadMoved ==
    [][ (ev'.op = "undo"
           /\ (lastCommitInfo = NoInfo \/ head # lastCommitInfo.hash))
          => /\ ev'.outcome \in {"none", "moved"} /\ ev'.warn
             /\ UNCHANGED <<termQ, commits, head, dirty, staged, lastCommitInfo,
                            undos>> ]_vars

\* an undo was refused because HEAD is no longer the recorded commit
C17_Witness ==
    /\ ev.op = "undo" /\ ev.outcome = "moved"
    /\ lastCommitInfo # NoInfo /\ head # lastCommitInfo.hash /\ termQ = <<>>

\* C18: once the shell has run a command of the save handler and that command
\* has made a commit, the recorded hash is the hash of that commit.
C18_RecordedHashIsTheCommit ==
    (ev.op = "term" /\ ev.by = "handleSave" /\ ev.made # 0
       /\ lastCommitInfo # NoInfo)
      => lastCommitInfo.hash = ev.made

\* the complexity tiers in their order
TierRank(t) ==
    CASE t = "trivial" -> 0 [] t = "simple" -> 1 [] t = "moderate" -> 2
      [] t = "complex" -> 3 [] OTHER -> 4

\* C19: every analysis has linesAdded + linesRemoved = totalChanges, and
\* when a diff gets one more changed line, its file sections staying the
\* same, the complexity tier does not go down.
C19_TotalIsSumAndTierMonotone ==
    [][ (call'.fn = "analyzeDiff" /\ call'.done /\ ~call.done)
          => /\ call'.out.linesAdded + call'.out.linesRemoved
                  = call'.out.totalChanges
             /\ (call.out # <<>>
                   => /\ call'.out.filesChanged = call.out.filesChanged
                      /\ call'.out.totalChanges = call.out.totalChanges + 1
                      /\ TierRank(call'.out.complexity)
                           >= TierRank(call.out.complexity)) ]_vars

\* a diff of added and removed lines in two files was analyzed as major
C19_Witness ==
    /\ call.fn = "analyzeDiff" /\ call.done /\ call.out.complexity = "major"
    /\ call.out.filesChanged = 2 /\ call.out.linesAdded > 0
    /\ call.out.linesRemoved > 0
    /\ call.out.totalChanges = call.arg.added + call.arg.removed

\* C20: the tier is decided by adjusted = totalChanges + (filesChanged - 1)
\* * 10: trivial up to 5, simple up to 20, moderate up to 50, complex up to
\* 150, major above.
C20_TierThresholds ==
    (call.fn = "analyzeDiff" /\ call.done)
      => LET adjusted == call.arg.added + call.arg.removed
                         + (IF call.arg.files > 1 THEN call.arg.files - 1 ELSE 0) * 10
             tier == call.out.complexity
         IN  /\ (tier = "trivial") = (adjusted <= 5)
             /\ (tier = "simple") = (5 < adjusted /\ adjusted <= 20)
             /\ (tier = "moderate") = (20 < adjusted /\ adjusted <= 50)
             /\ (tier = "complex") = (50 < adjusted /\ adjusted <= 150)
             /\ (tier = "major") = (adjusted > 150)

\* a diff of three files at adjusted = 151 was analyzed as major
C20_Witness ==
    /\ call.fn = "analyzeDiff" /\ call.done /\ call.arg.files = 3
    /\ call.arg.added + call.arg.removed = 131 /\ call.out.complexity = "major"

\* C21: for every analysis, suggestedLength is detailed when the change is
\* flagged breaking; otherwise short for trivial, short for simple unless a
\* new function was added (then medium), medium for moderate, and detailed
\* for complex and major.
C21_SuggestedLength ==
    (call.fn = "analyzeDiffOf" /\ call.done)
      => LET a == call.out
         IN  a.suggestedLength =
               (CASE a.isBreakingChange -> "detailed"
                  [] ~a.isBreakingChange /\ a.complexity = "trivial" -> "short"
                  [] ~a.isBreakingChange /\ a.complexity = "simple"
                       /\ a.hasNewFunction -> "medium"
                  [] ~a.isBreakingChange /\ a.complexity = "simple"
                       /\ ~a.hasNewFunction -> "short"
                  [] ~a.isBreakingChange /\ a.complexity = "moderate" -> "medium"
                  [] OTHER -> "detailed")

\* a simple change that removes an export was analyzed: breaking, detailed
C21_Witness ==
    /\ call.fn = "analyzeDiffOf" /\ call.done
    /\ call.out.isBreakingChange /\ call.out.complexity = "simple"
    /\ ~call.out.hasNewFunction /\ call.out.suggestedLength = "detailed"


\* C22: for every diff of src/auth/login.ts with 3 added and 1 removed lines
\* and no new function signature, analyzeDiff yields changeType fix or
\* chore, scope auth, complexity trivial and suggestedLength short.
C22_ScenarioLogin ==
    LET \* the diff at hand is one of src/auth/login.ts with 3 added and 1 removed
        \* lines, none of them a function signature
        ScenarioLoginDiff ==
            /\ call.fn = "analyzeDiffOf"
            /\ call.arg.file = FileLogin /\ call.arg.bulk = 0
            /\ Cardinality({i \in 1..Len(call.arg.lines) : call.arg.lines[i] \in AddedLines}) = 3
            /\ Cardinality({i \in 1..Len(call.arg.lines) : call.arg.lines[i] \in RemovedLines}) = 1
            /\ FunctionAdded \notin Range(call.arg.lines)
    IN
    (ScenarioLoginDiff /\ call.done)
      => /\ call.out.changeType \in {"fix", "chore"}
         /\ call.out.scope = <<"a", "u", "t", "h">>
         /\ call.out.complexity = "trivial"
         /\ call.out.suggestedLength = "short"

\* C23: for every diff text, the empty one and one with no changed line
\* included, analyzeDiff on package.json returns hasDependencyChanges = true.
C23_PackageJsonIsDependencyChange ==
    (call.fn = "analyzeDiffOf" /\ call.done /\ call.arg.file = FilePackage)
      => call.out.hasDependencyChanges

C25_EveryRejectionLogged ==
    LET \* the line the log holds for a rejection: the guard's own line, or for the
        \* policy chain a line written after "valid token"
        ReasonLogged(e) ==
            CASE e.guard = "NoToken" -> "no trigger token" \in Range(e.log)
              [] e.guard = "TokenExpired" -> "token expired" \in Range(e.log)
              [] e.guard = "PathMismatch" -> "token path mismatch" \in Range(e.log)
              [] e.guard = "NonceMismatch" -> "nonce mismatch" \in Range(e.log)
              [] e.outcome = "disabled" -> "autoCommit disabled" \in Range(e.log)
              [] e.outcome = "notRepo" -> "not a git repository" \in Range(e.log)
              [] e.outcome = "ignored" -> "file ignored by git" \in Range(e.log)
              [] e.outcome = "sensitive" -> "sensitive file" \in Range(e.log)
              [] e.outcome = "unmatched" -> Range(e.log) \ {"valid token"} # {}
              [] e.outcome = "pass" /\ e.autoPush /\ ~e.canPush
                   -> "protected branch - no push" \in Range(e.log)
              [] OTHER -> TRUE
    IN
                            (ev.op = "save") => ReasonLogged(ev)

\* C26: nothing the save handler writes to the log depends on the value of
\* the generation credential: two runs that differ only in the non-empty API
\* key, with the same answer of the backend, write the same lines.
C26_LogIndependentOfKey ==
    (call.fn = "generationLog" /\ Len(call.out) = 2) => call.out[1] = call.out[2]

\* C27: a save rejected for PathMismatch leaves the persisted token and the
\* nonce map as they were, so that a token that would let a save of its own
\* path through before the rejected save still does so after it.
C27_PathMismatchKeepsToken ==
    [][ (ev'.op = "save" /\ ev'.guard = "PathMismatch")
          => /\ token' = token
             /\ triggerNonces' = triggerNonces
             /\ now' = now
             /\ (Guard(token, triggerNonces, token.path, now) = "Authorized"
                   => Guard(token', triggerNonces', token'.path, now') = "Authorized") ]_vars

\* a save of another path was turned away, and the save the last save-and-run
\* was made for would still be let through
C27_Witness ==
    /\ ev.op = "save" /\ ev.guard = "PathMismatch"
    /\ armed # NoRun /\ armed.path # ev.path
    /\ Guard(token, triggerNonces, armed.path, now) = "Authorized"

\* C28: in every reachable state the nonce map holds an entry only for the
\* path of the live token: an entry goes when its token is consumed and when
\* a later save-and-run replaces the token with one for another path, and no
\* entry outlives its token.
C28_NonceOnlyForLiveToken ==
    \A p \in Paths :
        triggerNonces[p] # Absent => (token # NoToken /\ token.path = p)

\* C29: at no time are two save handlers of one file both past authorization
\* and not yet finished: while a handler is suspended on its prompt or on
\* message generation, no further save of its file is let through and
\* processed, a save that a new save-and-run precedes included.
C29_NoConcurrentHandlers ==
    [][ (ev'.op = "save" /\ ev'.guard = "Authorized" /\ ev'.outcome = "pass")
          => \A i \in 1..Len(handlers) : handlers[i].path # ev'.path ]_vars

\* C30: undo never resets a commit other than the recorded one: a reset
\* command is issued only if HEAD equals the recorded hash at the moment the
\* command is issued, also when HEAD was moved while the confirmation was
\* open.
C30_ResetOnlyAtRecordedHead ==
    [][ (ev'.op = "undoAnswer" /\ ev'.sent)
          => (lastCommitInfo # NoInfo /\ getHeadCommit = lastCommitInfo.hash) ]_vars

\* C31: an undo that issues its reset clears lastCommitInfo, an undo that
\* finds it cleared issues no reset, and every real commit command sent (by
\* the save handler or by run-once) leaves lastCommitInfo describing that
\* commit
C31_UndoClearsAndCommitSupersedes ==
    [][ /\ (ev'.op = "undoAnswer" /\ ev'.sent) => lastCommitInfo' = NoInfo
        /\ (ev'.op \in {"undo", "undoAnswer"} /\ lastCommitInfo = NoInfo)
              => (~ev'.sent /\ termQ' = termQ)
        /\ (ev'.op \in {"save", "resume", "runOnce"} /\ ev'.sent)
              => (/\ lastCommitInfo' # NoInfo
                  /\ lastCommitInfo'.message = ev'.cmd.message) ]_vars

\* C32: the command a dry-run save renders is the command the executor
\* builds for the same message, branch and push decision with dry-run off
C32_DryRunRendersExecutedCommand ==
    (ev.op \in {"save", "resume"} /\ ev.dryRun /\ ev.cmd # NoCmd)
        => ev.cmd = buildCommitCommand(ev.cmd.message, ev.branch,
                                       ~FALSE /\ ev.canPush)

\* C33: an authorized save evaluates the checks of the policy chain in the
\* order glob, autoCommit, repository, git-ignore, sensitive, branch, up to
\* and including the first one that fails, and reports that check's
\* outcome; it passes when none fails
C33_FirstFailureDecides ==
    (call.fn = "policy" /\ ev.op = "save" /\ ev.guard = "Authorized")
      => LET cfg == call.arg
             order == <<"glob", "autoCommit", "repo", "ignore", "sensitive",
                        "branch">>
             outcomes == <<"unmatched", "disabled", "notRepo", "ignored",
                           "sensitive">>
             fails == <<~MatchesAny(ev.path, cfg.watchGlobs), ~cfg.autoCommit,
                        ~isRepo, ev.path \in GitIgnored,
                        MatchesAny(ev.path, DefaultSensitiveGlobs)>>
             F == {i \in 1..5 : fails[i]}
             first == IF F = {} THEN 6 ELSE CHOOSE i \in F : \A j \in F : i <= j
             evaluated == SubSeq(ev.trace, 5, Len(ev.trace))
         IN  /\ evaluated = SubSeq(order, 1, first)
             /\ ev.outcome = IF F = {} THEN "pass" ELSE outcomes[first]

\* an authorized save outside a repository with autoCommit off: two checks
\* would fail, the chain stopped at the first
C33_Witness ==
    /\ call.fn = "policy" /\ ev.op = "save" /\ ev.guard = "Authorized"
    /\ MatchesAny(ev.path, call.arg.watchGlobs)
    /\ ~call.arg.autoCommit /\ ~isRepo
    /\ ev.outcome = "disabled"

\* C34: two calls of the fallback composer for the same document, emoji
\* setting and template table return the same message
C34_FallbackDeterministic ==
    (call.fn = "fallback" /\ Len(call.out) = 2) => call.out[1] = call.out[2]

\* C35: whichever source supplies it, the change evidence handed to the
\* generation request is at most 8000 characters plus the truncation marker
C35_EvidenceBounded ==
    (call.fn = "evidence" /\ call.done)
        => Len(call.out) <= MaxDiffLength + Len(TruncationMarker)

\* C36: a save that was authorized, passed the policy chain and suspended on
\* the credential prompt or on generation leads to a handler that ends with
\* its command built, and sent or (dry-run) only rendered
C36_SuspendedSaveFinishes ==
    (handlers # <<>>)
        ~> (ev.op = "resume" /\ ev.cmd # NoCmd /\ (ev.sent \/ ev.dryRun))

\* the backend stayed silent, the request timed out and the handler sent the
\* command with the fallback message
C36_Witness ==
    /\ ev.op = "resume" /\ ev.resp.net = "timeout" /\ ev.sent
    /\ ev.cmd.message = ev.fallback /\ handlers = <<>>

\* C37: an authorized save clears the token and the nonce of its path
\* whatever the policy chain then decides, and a further save of that path
\* with no save-and-run since is ignored as having no token
C37_ClearedBeforePolicy ==
    [][ /\ (ev'.op = "save" /\ ev'.guard = "Authorized")
              => (token' = NoToken /\ triggerNonces'[ev'.path] = Absent)
        /\ (ev'.op = "save" /\ spent # "" /\ ev'.path = spent)
              => (ev'.guard = "NoToken" /\ ev'.cmd = NoCmd
                  /\ UNCHANGED <<handlers, termQ>>) ]_vars

\* the chain rejected credentials.json as sensitive, and the next save of it
\* found no token
C37_Witness ==
    /\ call.fn = "policy" /\ Len(call.out) >= 1
    /\ call.out[Len(call.out)].outcome = "sensitive"
    /\ call.out[Len(call.out)].path = ev.path
    /\ ev.op = "save" /\ ev.guard = "NoToken" /\ spent = ev.path

\* C38: a save handled in dry-run mode leaves the statistics and
\* lastCommitInfo as they are; a step of the save handler changes them only
\* by sending a real commit command, which counts one commit and records its
\* message; the statistics change at no other step than one that sends a
\* commit command
C38_DryRunKeepsStatsAndInfo ==
    [][ /\ (ev'.op \in {"save", "resume"} /\ ev'.dryRun)
              => UNCHANGED <<totalCommits, lastCommitInfo>>
        /\ (/\ ev'.op \in {"save", "resume"}
            /\ (totalCommits' # totalCommits \/ lastCommitInfo' # lastCommitInfo))
              => (/\ ev'.sent /\ ~ev'.dryRun
                  /\ totalCommits' = totalCommits + 1
                  /\ lastCommitInfo'.message = ev'.cmd.message)
        /\ (totalCommits' # totalCommits)
              => (ev'.sent /\ ev'.op \in {"save", "resume", "runOnce"}) ]_vars

\* a dry-run save rendered its command after a real commit had been counted
\* and recorded
C38_Witness ==
    /\ ev.op = "save" /\ ev.dryRun /\ ev.cmd # NoCmd /\ ~ev.sent
    /\ totalCommits > 0 /\ lastCommitInfo # NoInfo

\* C39: when the shell runs the built command line, git push runs only after
\* git commit ran and either created a commit or found nothing to commit
C39_PushOnlyAfterCommitStep ==
    (call.fn = "shell" /\ call.done /\ "push" \in Range(call.out.ran))
        => /\ "commit" \in Range(call.out.ran)
           /\ call.arg.commit \in {"created", "nothing"}

====
